---- MODULE Spec2Model ----
(***************************************************************************)
(* p2c-engine: the Manager that supervises per-account Workers             *)
(* (internal/engine/manager.go), the Worker life cycle and its accept path *)
(* (engine/worker.go, latest revision) and the marketplace client's error  *)
(* text (internal/p2c/client.go).                                          *)
(*                                                                         *)
(* Two state machines share this module:                                   *)
(*   Spec       - Manager calls from concurrent callers, the Workers they  *)
(*                create and each Worker's supervisor goroutine;           *)
(*   WorkerSpec - one Worker's handleLivePayment / CompletePayment /       *)
(*                CancelPayment against a clock and the upstream's answers. *)
(* Each specification freezes the other machine's variables.               *)
(***************************************************************************)
EXTENDS Integers, Sequences, FiniteSets, TLC

VARIABLES
    \* ---- Manager and Worker life cycle ----
    workers,     \* Manager.workers: account id -> Worker (NoWorker: no entry)
    mu,          \* Manager.mu: 0 when free, else the caller holding it
    nextW,       \* number of Workers built by NewWorker so far
    wCfg,        \* Worker.cfg (AccountID, Active, AutoMode) of each Worker
    wCancel,     \* Worker.cancel # nil
    ctxDone,     \* the supervisor's context has been cancelled
    stopClosed,  \* Worker.stopCh is closed
    doneClosed,  \* Worker.doneCh is closed (the supervisor goroutine returned)
    sup,         \* position of each Worker's supervisor goroutine
    pc,          \* position of each caller inside its Manager call
    frame,       \* locals of each caller's Manager call
    lastRet,     \* how the latest finished Manager call ended
    calls,       \* number of Manager calls begun so far
    \* ---- one Worker's accept path ----
    workerCfg,                  \* Worker.cfg (MinAmount, MaxAmount, ChatID) and p2cAccountID
    now,                  \* the wall clock, in seconds; 0 is Go's zero time.Time
    ticks,                \* number of clock advances so far
    adds,                 \* number of Add events the driver has delivered so far
    seen,                 \* Worker.seen: stream id -> first seen
    penaltyUntil,         \* Worker.penaltyUntil
    penaltyReason,        \* Worker.penaltyReason
    lastPenaltyNotified,  \* Worker.lastPenaltyNotified
    takeMap,              \* Worker.takeMap: stream id -> numeric id
    activePaymentID,      \* Worker.activePaymentID
    activeLockUntil,      \* Worker.activeLockUntil
    hpc,                  \* handleLivePayment: "idle", or "taking" inside TakeLivePayment
    cur,                  \* the LivePayment being handled
    notifyTasks,          \* detached notifyLiveAccepted goroutines not yet run
    takes,                \* history: ids of the accept requests sent upstream
    notes,                \* history: penalty notifications handed to the operator chat
    accepted,             \* history: the calls notifyLiveAccepted made to the Telegram senders
    penaltySeen,          \* history: the penalty_end_at of each refusal parsePenalty recognised
    lastEv,               \* history: the latest Add and what the accept path did with it
    lastSettle,           \* history: the latest CompletePayment / CancelPayment call
    lastTake,             \* history: how the latest TakeLivePayment returned, and the
                          \* notification the handler then started
    \* ---- the subscription driver on one connection ----
    listIDs,     \* SubscribeSocket listIDs: the virtual list
    addTimes,    \* SubscribeSocket addTimes: id -> first seen
    pending,     \* number of entries of the list:update frame in hand not yet applied
    applied,     \* history: entries of the frame in hand already applied
    hBusy,       \* the id the handler is running for, "" when it is not running
    invoked,     \* history: the ids the handler was called with for the frame in hand
    lastRead,    \* history: the frame read last: its kind, and the ids of a snapshot
    written,     \* history: the frames handed to conn.WriteMessage for the frame read last
    loopRet,     \* whether SubscribeSocket has returned
    \* ---- Worker.allowRequest ----
    reqHistory,  \* Worker.reqHistory: times of the requests in the window
    rlNow,       \* the time of the latest call
    rlCalls,     \* number of calls so far
    rlLast,      \* what the latest call returned: "allowed" or "refused"
    allowedLog,  \* history: the times of all calls that were allowed
    \* ---- one Worker, Start called any number of times ----
    stCfg,         \* Worker.cfg (Active, AutoMode)
    stStarts,      \* number of Start() calls so far
    stTask,        \* position of the goroutine each Start() call spawned
    stCancel,      \* Worker.cancel: NoTask when nil, else the task whose context it cancels
    stCtxDone,     \* the tasks whose context has been cancelled
    stDoneCloses,  \* number of close(w.doneCh) executed
    stStop,        \* Stop(): "none", "waiting" on doneCh, "returned"
    stPanic,       \* the process has panicked
    stDialed,      \* history: a subscription was dialled
    \* ---- the QR link of one accept notification ----
    qrIn,          \* LivePayment.URL
    qrOut,         \* the qrURL notifyLiveAccepted built, <<>> before it has
    \* ---- SubscribeSocket from its call to the read loop ----
    upPc,          \* where SubscribeSocket stands
    upToken,       \* accessToken
    upCtxDone,     \* ctx is cancelled
    upSid,         \* the sid of the Engine.IO handshake, "" before it
    upCookie,      \* the Cookie header of the dial, <<>> when not set
    upConn,        \* the websocket connection: "none", "open", "closed"
    upSent,        \* history: the frames written on the connection
    upReply,       \* history: the first frame received, UpNoReply before it
    upErr          \* the error SubscribeSocket returned, "" for none

mapVars == <<workers, nextW, wCfg>>
callVars == <<mu, pc, frame, lastRet, calls>>
lifeVars == <<wCancel, ctxDone, stopClosed, doneClosed, sup>>
mgrVars == <<mapVars, callVars, lifeVars>>

wkState == <<seen, penaltyUntil, penaltyReason, lastPenaltyNotified, takeMap,
             activePaymentID, activeLockUntil>>
wkHist == <<takes, notes, accepted, penaltySeen, lastEv, lastSettle, lastTake>>
wkVars == <<workerCfg, now, ticks, adds, wkState, hpc, cur, notifyTasks, wkHist>>

drvVars == <<listIDs, addTimes, pending, applied, hBusy, invoked, lastRead, written, loopRet>>
\* the machines beside the Manager and the Worker accept path
rlVars == <<reqHistory, rlNow, rlCalls, rlLast, allowedLog>>
stVars == <<stCfg, stStarts, stTask, stCancel, stCtxDone, stDoneCloses, stStop, stPanic,
            stDialed>>
qrVars == <<qrIn, qrOut>>
upVars == <<upPc, upToken, upCtxDone, upSid, upCookie, upConn, upSent, upReply, upErr>>
auxVars == <<drvVars, rlVars, stVars, qrVars, upVars>>
notDrv == <<mgrVars, wkVars, rlVars, stVars, qrVars, upVars>>
notRl == <<mgrVars, wkVars, drvVars, stVars, qrVars, upVars>>
notSt == <<mgrVars, wkVars, drvVars, rlVars, qrVars, upVars>>
notUp == <<mgrVars, wkVars, drvVars, rlVars, stVars, qrVars>>
notQr == <<mgrVars, wkVars, drvVars, rlVars, stVars, upVars>>

vars == <<mgrVars, wkVars, auxVars>>

-----------------------------------------------------------------------------
(* Bounds of the Manager machine *)
NumAccounts == 1
NumCallers == 2
MaxWorkers == 2
MaxCalls == 3

Accounts == 1..NumAccounts
Callers == 1..NumCallers
WorkerIds == 1..MaxWorkers
NoWorker == 0

\* WorkerConfig, the fields the Manager and Worker.Start read
MkCfg(acc, active, auto) == [AccountID |-> acc, Active |-> active, AutoMode |-> auto]
Configs == {MkCfg(a, x, y) : a \in Accounts, x \in BOOLEAN, y \in BOOLEAN}
\* WorkerConfig{AccountID: accountID}: every other field has Go's zero value
EmptyCfg(acc) == MkCfg(acc, FALSE, FALSE)
NoCfg == MkCfg(0, FALSE, FALSE)

\* cfg.Active && cfg.AutoMode, the negation of the test of ReloadAccount and Start
Enabled(cfg) == cfg.Active /\ cfg.AutoMode

NoFrame == [op |-> "none", cfg |-> NoCfg, w |-> NoWorker, todo |-> {}]
NoRet == [op |-> "none", cfg |-> NoCfg, w |-> NoWorker, res |-> "none"]

RouteOps == {"take", "complete", "cancel"}

MgrInit ==
    /\ workers = [a \in Accounts |-> NoWorker]
    /\ mu = 0
    /\ nextW = 0
    /\ wCfg = [w \in WorkerIds |-> NoCfg]
    /\ wCancel = [w \in WorkerIds |-> FALSE]
    /\ ctxDone = [w \in WorkerIds |-> FALSE]
    /\ stopClosed = [w \in WorkerIds |-> FALSE]
    /\ doneClosed = [w \in WorkerIds |-> FALSE]
    /\ sup = [w \in WorkerIds |-> "none"]
    /\ pc = [c \in Callers |-> "idle"]
    /\ frame = [c \in Callers |-> NoFrame]
    /\ lastRet = NoRet
    /\ calls = 0

-----------------------------------------------------------------------------
(* Worker.Start: the supervisor goroutine *)

\* go func() { defer close(w.doneCh); if !Active || !AutoMode { return };
\*             ctx, cancel := context.WithCancel(...); w.cancel = cancel
SupInit(w) ==
    /\ sup[w] = "spawned"
    /\ IF Enabled(wCfg[w])
         THEN /\ wCancel' = [wCancel EXCEPT ![w] = TRUE]
              /\ sup' = [sup EXCEPT ![w] = "dial"]
              /\ UNCHANGED doneClosed
         ELSE /\ sup' = [sup EXCEPT ![w] = "exited"]
              /\ doneClosed' = [doneClosed EXCEPT ![w] = TRUE]
              /\ UNCHANGED wCancel
    /\ UNCHANGED <<mapVars, callVars, ctxDone, stopClosed>>
    /\ UNCHANGED <<wkVars, auxVars>>

\* SubscribeSocket up to its read loop: eioHandshake (5 s timeout, no context)
\* and eioWebsocket (DialContext: fails once the context is cancelled)
SupDial(w) ==
    /\ sup[w] = "dial"
    /\ \E ok \in BOOLEAN :
         /\ ok => ~ctxDone[w]
         /\ sup' = [sup EXCEPT ![w] = IF ok THEN "loop" ELSE "backoff"]
    /\ UNCHANGED <<mapVars, callVars, wCancel, ctxDone, stopClosed, doneClosed>>
    /\ UNCHANGED <<wkVars, auxVars>>

\* select { case <-ctx.Done(): return nil; default: conn.ReadMessage() }
SupLoop(w) ==
    /\ sup[w] = "loop"
    /\ sup' = [sup EXCEPT ![w] = IF ctxDone[w] THEN "backoff" ELSE "read"]
    /\ UNCHANGED <<mapVars, callVars, wCancel, ctxDone, stopClosed, doneClosed>>
    /\ UNCHANGED <<wkVars, auxVars>>

\* conn.ReadMessage() returns a frame (handled, back to the select) or an error
\* (the driver returns it); the read itself does not watch the context
SupRead(w) ==
    /\ sup[w] = "read"
    /\ \E err \in BOOLEAN :
         sup' = [sup EXCEPT ![w] = IF err THEN "backoff" ELSE "loop"]
    /\ UNCHANGED <<mapVars, callVars, wCancel, ctxDone, stopClosed, doneClosed>>
    /\ UNCHANGED <<wkVars, auxVars>>

\* select { case <-ctx.Done(): ...; case <-time.After(5 * time.Second): ... } is
\* entered in "backoff"; with the context not cancelled neither case is ready and
\* the goroutine blocks in it ("wait")
SelectBlocks(w) == ~ctxDone[w]
SupWait(w) ==
    /\ sup[w] = "backoff"
    /\ SelectBlocks(w)
    /\ sup' = [sup EXCEPT ![w] = "wait"]
    /\ UNCHANGED <<mapVars, callVars, wCancel, ctxDone, stopClosed, doneClosed>>
    /\ UNCHANGED <<wkVars, auxVars>>

\* select { case <-ctx.Done(): return ... }: the deferred close(w.doneCh) runs
SupExit(w) ==
    /\ sup[w] \in {"backoff", "wait"}
    /\ ctxDone[w]
    /\ sup' = [sup EXCEPT ![w] = "exited"]
    /\ doneClosed' = [doneClosed EXCEPT ![w] = TRUE]
    /\ UNCHANGED <<mapVars, callVars, wCancel, ctxDone, stopClosed>>
    /\ UNCHANGED <<wkVars, auxVars>>

\* select { ... case <-time.After(5 * time.Second): } and the loop calls the driver
\* again; when the context was cancelled during the wait and the timer has fired
\* too, both cases are ready and Go's select takes either
SupRedial(w) ==
    /\ sup[w] = "wait"
    /\ sup' = [sup EXCEPT ![w] = "dial"]
    /\ UNCHANGED <<mapVars, callVars, wCancel, ctxDone, stopClosed, doneClosed>>
    /\ UNCHANGED <<wkVars, auxVars>>

Supervisor(w) ==
    SupInit(w) \/ SupDial(w) \/ SupLoop(w) \/ SupRead(w) \/ SupWait(w) \/ SupExit(w)
       \/ SupRedial(w)

\* a supervisor task that was started and has not yet exited
SupAlive(w) == sup[w] \notin {"none", "exited"}

-----------------------------------------------------------------------------
(* Worker.Stop, called by the Manager with Manager.mu held *)

\* <-w.doneCh
DoneNotAwaited(w) == TRUE
DoneSignalled(w) == doneClosed[w]

\* if w.cancel != nil { w.cancel() }; close(w.stopCh): closing a closed channel
\* panics.  The read of w.cancel is not synchronised with the supervisor's write:
\* it yields nil when it runs before SupInit and the cancel function after it.
StopBegin(c, w, f, waitPc) ==
    /\ ctxDone' = [ctxDone EXCEPT ![w] = @ \/ wCancel[w]]
    /\ IF stopClosed[w]
         THEN \* panic: deferred m.mu.Unlock() runs, the call ends
              /\ mu' = 0
              /\ pc' = [pc EXCEPT ![c] = "idle"]
              /\ frame' = [frame EXCEPT ![c] = NoFrame]
              /\ lastRet' = ([op |-> f.op, cfg |-> f.cfg, w |-> w, res |-> "panic_close"])
              /\ UNCHANGED stopClosed
         ELSE /\ stopClosed' = [stopClosed EXCEPT ![w] = TRUE]
              /\ mu' = c
              /\ pc' = [pc EXCEPT ![c] = waitPc]
              /\ frame' = [frame EXCEPT ![c] = [f EXCEPT !.w = w]]
              /\ UNCHANGED lastRet

-----------------------------------------------------------------------------
(* Manager.ReloadAccount *)

\* a caller (an HTTP handler goroutine, or main at shutdown) enters the Manager;
\* callers are interchangeable, so a new call takes the lowest free slot
NewCall(c) ==
    /\ pc[c] = "idle"
    /\ calls < MaxCalls
    /\ \A d \in Callers : d < c => pc[d] # "idle"

\* m.mu.Lock(); both branches stop the Worker the map holds, if any
RlEnter(c, f) ==
    /\ mu = 0
    /\ Enabled(f.cfg) => nextW < MaxWorkers
    /\ LET w == workers[f.cfg.AccountID] IN
         IF w # NoWorker
           THEN StopBegin(c, w, f, "rl_wait")
           ELSE /\ mu' = c
                /\ pc' = [pc EXCEPT ![c] = "rl_finish"]
                /\ frame' = [frame EXCEPT ![c] = [f EXCEPT !.w = NoWorker]]
                /\ UNCHANGED <<ctxDone, stopClosed, lastRet>>
    /\ UNCHANGED <<workers, nextW, wCfg, wCancel, doneClosed, sup>>
    /\ UNCHANGED <<wkVars, auxVars>>

ReloadAccount(c, cfg) ==
    /\ NewCall(c)
    /\ RlEnter(c, [NoFrame EXCEPT !.op = "reload", !.cfg = cfg])
    /\ calls' = calls + 1

\* w.Stop() blocked in <-w.doneCh
RlWait(c) ==
    /\ pc[c] = "rl_wait"
    /\ DoneSignalled(frame[c].w)
    /\ pc' = [pc EXCEPT ![c] = "rl_finish"]
    /\ UNCHANGED <<mapVars, lifeVars, mu, frame, lastRet, calls>>
    /\ UNCHANGED <<wkVars, auxVars>>

\* the map after ReloadAccount: delete(m.workers, id) / m.workers[id] = w
WorkersNoDelete(cfg, old, new) ==
    IF Enabled(cfg) THEN [workers EXCEPT ![cfg.AccountID] = new] ELSE workers
WorkersAfterReload(cfg, old, new) ==
    IF Enabled(cfg)
      THEN [workers EXCEPT ![cfg.AccountID] = new]
      ELSE IF old # NoWorker THEN [workers EXCEPT ![cfg.AccountID] = NoWorker]
           ELSE workers

\* the rest of ReloadAccount, then the deferred m.mu.Unlock() and the return
RlFinish(c) ==
    /\ pc[c] = "rl_finish"
    /\ LET f == frame[c]
           new == nextW + 1
       IN /\ workers' = WorkersAfterReload(f.cfg, f.w, new)
          /\ IF Enabled(f.cfg)
               THEN \* NewWorker(cfg, client, botToken); w.Start()
                    /\ nextW' = new
                    /\ wCfg' = [wCfg EXCEPT ![new] = f.cfg]
                    /\ sup' = [sup EXCEPT ![new] = "spawned"]
               ELSE UNCHANGED <<nextW, wCfg, sup>>
          /\ mu' = 0
          /\ IF f.op = "reload"
               THEN /\ pc' = [pc EXCEPT ![c] = "idle"]
                    /\ frame' = [frame EXCEPT ![c] = NoFrame]
                    /\ lastRet' = ([op |-> "reload", cfg |-> f.cfg, w |-> f.w, res |-> "ok"])
               ELSE /\ pc' = [pc EXCEPT ![c] = "rt_relookup"]
                    /\ frame' = [frame EXCEPT ![c] = [f EXCEPT !.w = NoWorker]]
                    /\ UNCHANGED lastRet
    /\ UNCHANGED <<wCancel, ctxDone, stopClosed, doneClosed, calls>>
    /\ UNCHANGED <<wkVars, auxVars>>

-----------------------------------------------------------------------------
(* Manager.StopAll *)

\* m.mu.Lock(); for id, w := range m.workers
StopAll(c) ==
    /\ NewCall(c)
    /\ calls' = calls + 1
    /\ mu = 0
    /\ mu' = c
    /\ pc' = [pc EXCEPT ![c] = "sa_next"]
    /\ frame' = [frame EXCEPT ![c] =
          [NoFrame EXCEPT !.op = "stop_all",
                          !.todo = {a \in Accounts : workers[a] # NoWorker}]]
    /\ UNCHANGED <<mapVars, lifeVars, lastRet>>
    /\ UNCHANGED <<wkVars, auxVars>>

\* the next iteration of the range loop (Go's map order is unspecified), or its end
SaNext(c) ==
    /\ pc[c] = "sa_next"
    /\ IF frame[c].todo = {}
         THEN /\ mu' = 0
              /\ pc' = [pc EXCEPT ![c] = "idle"]
              /\ frame' = [frame EXCEPT ![c] = NoFrame]
              /\ lastRet' = ([NoRet EXCEPT !.op = "stop_all", !.res = "ok"])
              /\ UNCHANGED <<ctxDone, stopClosed>>
         ELSE \E a \in frame[c].todo :
                StopBegin(c, workers[a], [frame[c] EXCEPT !.todo = @ \ {a}], "sa_wait")
    /\ UNCHANGED <<workers, nextW, wCfg, wCancel, doneClosed, sup, calls>>
    /\ UNCHANGED <<wkVars, auxVars>>

SaWait(c) ==
    /\ pc[c] = "sa_wait"
    /\ DoneSignalled(frame[c].w)
    /\ pc' = [pc EXCEPT ![c] = "sa_next"]
    /\ UNCHANGED <<mapVars, lifeVars, mu, frame, lastRet, calls>>
    /\ UNCHANGED <<wkVars, auxVars>>

-----------------------------------------------------------------------------
(* Manager.TakeOrder / CompletePayment / CancelPayment *)

\* m.mu.Lock(); w, ok := m.workers[accountID]; m.mu.Unlock()
RouteLookup(c, op, acc) ==
    /\ NewCall(c)
    /\ calls' = calls + 1
    /\ mu = 0
    /\ LET w == workers[acc]
           f == [NoFrame EXCEPT !.op = op, !.cfg = EmptyCfg(acc), !.w = w]
       IN /\ frame' = [frame EXCEPT ![c] = f]
          /\ pc' = [pc EXCEPT ![c] = IF w # NoWorker THEN "rt_call" ELSE "rt_reload"]
    /\ UNCHANGED <<mapVars, lifeVars, mu, lastRet>>
    /\ UNCHANGED <<wkVars, auxVars>>

\* if !ok { m.ReloadAccount(WorkerConfig{AccountID: accountID}) ...
RouteReload(c) ==
    /\ pc[c] = "rt_reload"
    /\ RlEnter(c, frame[c])
    /\ UNCHANGED calls

\* ... m.mu.Lock(); w = m.workers[accountID]; m.mu.Unlock() }
RouteRelookup(c) ==
    /\ pc[c] = "rt_relookup"
    /\ mu = 0
    /\ frame' = [frame EXCEPT ![c].w = workers[frame[c].cfg.AccountID]]
    /\ pc' = [pc EXCEPT ![c] = "rt_call"]
    /\ UNCHANGED <<mapVars, lifeVars, mu, lastRet, calls>>
    /\ UNCHANGED <<wkVars, auxVars>>

\* the results w.TakeOrder / w.CompletePayment / w.CancelPayment can give; on a
\* nil *Worker each of them reads a field of w first and panics
WorkerCallResults(op, w) ==
    IF w = NoWorker THEN {"panic_nil"}
    ELSE IF op = "take" THEN {"ok"}
    ELSE {"ok", "error"}

\* return w.CompletePayment(ctx, paymentID) (and the like)
RouteCall(c) ==
    /\ pc[c] = "rt_call"
    /\ \E res \in WorkerCallResults(frame[c].op, frame[c].w) :
         lastRet' = ([op |-> frame[c].op, cfg |-> frame[c].cfg, w |-> frame[c].w, res |-> res])
    /\ pc' = [pc EXCEPT ![c] = "idle"]
    /\ frame' = [frame EXCEPT ![c] = NoFrame]
    /\ UNCHANGED <<mapVars, lifeVars, mu, calls>>
    /\ UNCHANGED <<wkVars, auxVars>>

-----------------------------------------------------------------------------
MgrNext ==
    \/ \E c \in Callers, cfg \in Configs : ReloadAccount(c, cfg)
    \/ \E c \in Callers : RlWait(c)
    \/ \E c \in Callers : RlFinish(c)
    \/ \E c \in Callers : StopAll(c)
    \/ \E c \in Callers : SaNext(c)
    \/ \E c \in Callers : SaWait(c)
    \/ \E c \in Callers, op \in RouteOps, a \in Accounts : RouteLookup(c, op, a)
    \/ \E c \in Callers : RouteReload(c)
    \/ \E c \in Callers : RouteRelookup(c)
    \/ \E c \in Callers : RouteCall(c)
    \/ \E w \in WorkerIds : SupInit(w)
    \/ \E w \in WorkerIds : SupDial(w)
    \/ \E w \in WorkerIds : SupLoop(w)
    \/ \E w \in WorkerIds : SupRead(w)
    \/ \E w \in WorkerIds : SupWait(w)
    \/ \E w \in WorkerIds : SupExit(w)
    \/ \E w \in WorkerIds : SupRedial(w)

-----------------------------------------------------------------------------
(* Texts.  A text is a sequence of tokens; a token is a quote-free piece of  *)
(* text or the double quote itself, so that the quote searches of            *)
(* parsePenalty see where the quotes are.  An RFC3339 instant is one token.  *)

Tok(l) == [lit |-> l, n |-> 0]
NumTok(k) == [lit |-> "#", n |-> k]
\* t.Format(time.RFC3339) of the instant t (seconds)
TimeTok(t) == [lit |-> "time", n |-> t]
Quote == Tok("\"")
JStr(tok) == <<Quote, tok, Quote>>

\* time.Parse(time.RFC3339, s): the instant, or an error and the zero time
ParseRFC3339(s) ==
    IF Len(s) = 1 /\ s[1].lit = "time"
      THEN [ok |-> TRUE, t |-> s[1].n]
      ELSE [ok |-> FALSE, t |-> 0]

\* strings.Index(s, tok): the first position of tok in s (from 1), 0 when absent
IndexTok(s, tok) ==
    IF \E i \in 1..Len(s) : s[i] = tok
      THEN CHOOSE i \in 1..Len(s) : s[i] = tok /\ \A j \in 1..(i - 1) : s[j] # tok
      ELSE 0

\* strings.Contains(s, word)
ContainsTok(s, word) == IndexTok(s, Tok(word)) > 0

\* s[i:] of Go, for the token after position i
After(s, i) == SubSeq(s, i + 1, Len(s))

\* json.Unmarshal of a text into penaltyPayload: the text has to be one JSON object
\* of string members, {"k":"v","k":"v",...}; ok is FALSE when it is not
JsonMembers(s) == (Len(s) - 1) \div 8
JsonIsObject(s) ==
    /\ Len(s) >= 2
    /\ s[1] = Tok("{") /\ s[Len(s)] = Tok("}")
    /\ Len(s) = 2 \/ (Len(s) - 1) % 8 = 0
    /\ \A m \in 0..(JsonMembers(s) - 1) :
          LET b == 1 + 8 * m IN
             /\ s[b + 1] = Quote /\ s[b + 3] = Quote /\ s[b + 4] = Tok(":")
             /\ s[b + 5] = Quote /\ s[b + 7] = Quote
             /\ s[b + 2] # Quote /\ s[b + 6] # Quote
             /\ s[b + 8] = IF m = JsonMembers(s) - 1 THEN Tok("}") ELSE Tok(",")
\* the string member key of the object s, "" (the empty text) when s has none
JsonField(s, key) ==
    LET ms == {m \in 0..(JsonMembers(s) - 1) : s[1 + 8 * m + 2] = Tok(key)} IN
       IF ms = {} THEN <<>>
       ELSE LET m == CHOOSE x \in ms : \A y \in ms : y <= x IN <<s[1 + 8 * m + 6]>>

\* bodies the upstream answers a refused accept with
PenaltyJSON(t, reason) ==
    <<Tok("{")>> \o JStr(Tok("error")) \o <<Tok(":")>> \o JStr(Tok("MerchantPenalized"))
      \o <<Tok(",")>> \o JStr(Tok("penalty_end_at")) \o <<Tok(":")>> \o JStr(TimeTok(t))
      \o <<Tok(",")>> \o JStr(Tok("penalty_type")) \o <<Tok(":")>> \o JStr(Tok(reason))
      \o <<Tok("}")>>
\* a body that is not JSON: MerchantPenalized penalty_end_at="<instant>"
PenaltyPlain(t) ==
    <<Tok("MerchantPenalized"), Tok(" "), Tok("penalty_end_at"), Tok("=")>> \o JStr(TimeTok(t))
ErrorJSON(code) ==
    <<Tok("{")>> \o JStr(Tok("error")) \o <<Tok(":")>> \o JStr(Tok(code)) \o <<Tok("}")>>

\* decimal texts, one character per element
Digits == {"0", "1", "2", "3", "4", "5", "6", "7", "8", "9"}
DigitVal(c) ==
    CASE c = "0" -> 0 [] c = "1" -> 1 [] c = "2" -> 2 [] c = "3" -> 3 [] c = "4" -> 4
      [] c = "5" -> 5 [] c = "6" -> 6 [] c = "7" -> 7 [] c = "8" -> 8 [] c = "9" -> 9
RECURSIVE DecVal(_)
DecVal(s) == IF s = <<>> THEN 0 ELSE 10 * DecVal(SubSeq(s, 1, Len(s) - 1)) + DigitVal(s[Len(s)])
AllDigits(s) == Len(s) >= 1 /\ \A i \in 1..Len(s) : s[i] \in Digits
\* strconv.ParseFloat(s, 64), for the texts with no fraction or exponent
ParseFloat(s) ==
    IF AllDigits(s) THEN [ok |-> TRUE, v |-> DecVal(s)]
    ELSE IF Len(s) >= 2 /\ s[1] \in {"-", "+"} /\ AllDigits(Tail(s))
      THEN [ok |-> TRUE, v |-> IF s[1] = "-" THEN 0 - DecVal(Tail(s)) ELSE DecVal(Tail(s))]
    ELSE [ok |-> FALSE, v |-> 0]

-----------------------------------------------------------------------------
(* Program constants of the Worker, in seconds *)
SeenTTL == 600
DefaultLock == 300
ExpiryGrace == 10
ActiveBackoff == 2

(* Bounds of the Worker machine *)
MaxAdds == 2
MaxTicks == 1
StartTime == 1000

IdNames == <<"A", "B">>
StreamIds == {IdNames[i] : i \in 1..Len(IdNames)}
TickSteps == {1, SeenTTL + 1}
\* the instants the upstream names in penalty_end_at
PenaltyTimes == {StartTime + 200, StartTime + 400}
ExpiresTexts == {<<>>, <<TimeTok(StartTime + 60)>>}
NumericIds == {0, 777}

\* *float64: nil, or a value
NilAmount == [set |-> FALSE, v |-> 0]
Amt(v) == [set |-> TRUE, v |-> v]
\* the (MinAmount, MaxAmount) pairs of the configurations explored
AmountBounds ==
    {<<NilAmount, NilAmount>>, <<Amt(2), Amt(4)>>, <<Amt(0 - 2), Amt(0)>>, <<Amt(0 - 4), Amt(0 - 2)>>}
MkWorkerCfg(acc, min, max, chat, p2c) ==
    [AccountID |-> acc, MinAmount |-> min, MaxAmount |-> max, ChatID |-> chat,
     P2CAccountID |-> p2c]
BaseCfg == MkWorkerCfg(1, NilAmount, NilAmount, 7, "m1")
\* the last one is a config with the zero value in AccountID, ChatID and P2CAccountID
WorkerCfgs ==
    {MkWorkerCfg(1, b[1], b[2], 7, "m1") : b \in AmountBounds}
      \cup {MkWorkerCfg(0, NilAmount, NilAmount, 0, "")}

\* strconv.FormatInt(v, 10) for one-digit v
DigitChar(d) == CHOOSE c \in Digits : DigitVal(c) = d
FormatInt(v) == IF v < 0 THEN <<"-", DigitChar(0 - v)>> ELSE <<DigitChar(v)>>
\* in_amount texts to probe a configuration with: just below MinAmount, just above
\* it, just above MaxAmount; without bounds a number and a text that is no number
ProbeAmounts(c) ==
    IF c.MinAmount.set /\ c.MaxAmount.set
      THEN {FormatInt(c.MinAmount.v - 1), FormatInt(c.MinAmount.v + 1),
            FormatInt(c.MaxAmount.v + 1)}
      ELSE {<<"1">>, <<"x">>}
InsideAmount(c) == IF c.MinAmount.set THEN FormatInt(c.MinAmount.v + 1) ELSE <<"1">>
\* p2c.LivePayment, the fields the Worker reads
RateText == <<"9", "5">>
FeeText == <<"3">>
Payments(c) ==
    {[ID |-> id, InAmount |-> a, ExpiresAt |-> <<>>, ExchangeRate |-> RateText,
      FeeAmount |-> FeeText] : id \in StreamIds, a \in ProbeAmounts(c)}
      \cup {[ID |-> id, InAmount |-> InsideAmount(c), ExpiresAt |-> e,
              ExchangeRate |-> RateText, FeeAmount |-> FeeText] :
               id \in StreamIds, e \in ExpiresTexts}
AllPayments == UNION {Payments(c) : c \in WorkerCfgs}
NoPayment ==
    [ID |-> "", InAmount |-> <<>>, ExpiresAt |-> <<>>, ExchangeRate |-> <<>>,
     FeeAmount |-> <<>>]
\* a nil reply markup: no button, no callback payload
NoMarkup == [paid |-> <<>>, cancel |-> <<>>]
\* the return of TakeLivePayment: ok, the numeric id of the response, the number of
\* notifyLiveAccepted goroutines the handler started and the keyboard they carry;
\* refused: the error code of the answer when it is ActiveOrderExists
NoTake == [ok |-> FALSE, dataId |-> 0, started |-> 0, markup |-> NoMarkup, refused |-> ""]
NoEvent == [amount |-> <<>>, outcome |-> "none", at |-> 0]
\* a CompletePayment / CancelPayment call: its argument, whether it issued the
\* upstream request and with which id, how it returned, and the parity of the
\* number of calls so far
NoSettle == [id |-> "", asked |-> FALSE, sent |-> "", res |-> "none", seq |-> 0]

\* what the upstream (or the transport: status 0) answers to POST /p2c/payments/take/{id}
TakeAnswers ==
    {[status |-> 200, body |-> <<>>, dataId |-> k] : k \in NumericIds}
      \cup {[status |-> 400, body |-> PenaltyJSON(t, "SLOW"), dataId |-> 0] : t \in PenaltyTimes}
      \cup {[status |-> 400, body |-> PenaltyPlain(t), dataId |-> 0] : t \in PenaltyTimes}
      \cup {[status |-> 400, body |-> ErrorJSON("ActiveOrderExists"), dataId |-> 0],
            [status |-> 400, body |-> ErrorJSON("PaymentNotFound"), dataId |-> 0],
            [status |-> 0, body |-> <<>>, dataId |-> 0]}
\* the penalty_end_at a MerchantPenalized body carries (0: the body is no such body)
SentPenaltyEnd(ans) ==
    IF \E t \in PenaltyTimes : ans.body \in {PenaltyJSON(t, "SLOW"), PenaltyPlain(t)}
      THEN CHOOSE t \in PenaltyTimes : ans.body \in {PenaltyJSON(t, "SLOW"), PenaltyPlain(t)}
      ELSE 0
\* the error code of an answer that refuses the accept with ActiveOrderExists
RefusedCode(ans) ==
    IF ans.status = 400 /\ ans.body = ErrorJSON("ActiveOrderExists")
      THEN "ActiveOrderExists" ELSE ""
\* whether the body of the answer is the JSON object
SentAsJSON(ans) == \E t \in PenaltyTimes : ans.body = PenaltyJSON(t, "SLOW")

EmptyMap == [x \in {} |-> 0]

WkInit ==
    /\ workerCfg \in WorkerCfgs
    /\ now = StartTime
    /\ ticks = 0
    /\ adds = 0
    /\ seen = EmptyMap
    /\ penaltyUntil = 0
    /\ penaltyReason = ""
    /\ lastPenaltyNotified = 0
    /\ takeMap = EmptyMap
    /\ activePaymentID = ""
    /\ activeLockUntil = 0
    /\ hpc = "idle"
    /\ cur = NoPayment
    /\ notifyTasks = {}
    /\ takes = <<>>
    /\ notes = <<>>
    /\ accepted = <<>>
    /\ penaltySeen = <<>>
    /\ lastEv = NoEvent
    /\ lastSettle = NoSettle
    /\ lastTake = NoTake

\* the Worker machine at rest, for the specification of the Manager
WkFrozen ==
    /\ workerCfg = BaseCfg
    /\ now = StartTime
    /\ ticks = 0
    /\ adds = 0
    /\ seen = EmptyMap
    /\ penaltyUntil = 0
    /\ penaltyReason = ""
    /\ lastPenaltyNotified = 0
    /\ takeMap = EmptyMap
    /\ activePaymentID = ""
    /\ activeLockUntil = 0
    /\ hpc = "idle"
    /\ cur = NoPayment
    /\ notifyTasks = {}
    /\ takes = <<>>
    /\ notes = <<>>
    /\ accepted = <<>>
    /\ penaltySeen = <<>>
    /\ lastEv = NoEvent
    /\ lastSettle = NoSettle
    /\ lastTake = NoTake

-----------------------------------------------------------------------------
(* Worker helpers *)

\* Client.statusOK
StatusOK(status) == status >= 200 /\ status < 300

\* Client.TakeLivePayment: the response, or an error whose text is the transport's
\* or "take payment status <status> body=<body>"
TakeLivePayment(ans) ==
    IF ans.status = 0
      THEN [ok |-> FALSE, err |-> <<Tok("timeout")>>, dataId |-> 0]
    ELSE IF ~StatusOK(ans.status)
      THEN [ok |-> FALSE,
            err |-> <<Tok("take payment status "), NumTok(ans.status), Tok(" body=")>> \o ans.body,
            dataId |-> 0]
    ELSE [ok |-> TRUE, err |-> <<>>, dataId |-> ans.dataId]

NoPenalty == [ok |-> FALSE, until |-> 0, reason |-> ""]
\* parsePenalty: the JSON reading of the whole error text, then the "very naive
\* parse": what stands between the first two quotes after penalty_end_at
parsePenalty(err) ==
    IF /\ JsonIsObject(err)
       /\ JsonField(err, "error") = <<Tok("MerchantPenalized")>>
       /\ JsonField(err, "penalty_end_at") # <<>>
      THEN [ok |-> TRUE,
            until |-> ParseRFC3339(JsonField(err, "penalty_end_at")).t,
            reason |-> IF JsonField(err, "penalty_type") = <<>> THEN ""
                       ELSE JsonField(err, "penalty_type")[1].lit]
    ELSE IF ContainsTok(err, "MerchantPenalized") /\ ContainsTok(err, "penalty_end_at")
      THEN LET rest == SubSeq(err, IndexTok(err, Tok("penalty_end_at")), Len(err))
               q == IndexTok(rest, Quote)
               rest2 == After(rest, q)
               q2 == IndexTok(rest2, Quote)
           IN IF q > 0 /\ q2 > 0
                THEN [ok |-> TRUE,
                      until |-> ParseRFC3339(SubSeq(rest2, 1, q2 - 1)).t,
                      reason |-> "unknown"]
                ELSE NoPenalty
    ELSE NoPenalty

\* isActiveExists
isActiveExists(err) == ContainsTok(err, "ActiveOrderExists")

\* shouldNotifyPenalty: whether to notify, and the new lastPenaltyNotified
NotifyOnEqual(until) ==
    IF until = 0 THEN [notify |-> FALSE, last |-> lastPenaltyNotified]
    ELSE IF until >= lastPenaltyNotified THEN [notify |-> TRUE, last |-> until]
    ELSE [notify |-> FALSE, last |-> lastPenaltyNotified]
shouldNotifyPenalty(until) ==
    IF until = 0 THEN [notify |-> FALSE, last |-> lastPenaltyNotified]
    ELSE IF until > lastPenaltyNotified THEN [notify |-> TRUE, last |-> until]
    ELSE [notify |-> FALSE, last |-> lastPenaltyNotified]

\* isActiveLocked(now): the answer, and the lock fields it leaves
isActiveLocked(t) ==
    IF activeLockUntil = 0 /\ activePaymentID = ""
      THEN [locked |-> FALSE, id |-> activePaymentID, until |-> activeLockUntil]
    ELSE IF t < activeLockUntil
      THEN [locked |-> TRUE, id |-> activePaymentID, until |-> activeLockUntil]
    ELSE [locked |-> FALSE, id |-> "", until |-> 0]

\* setActiveLock(id, expiresAt): the new activeLockUntil
setActiveLock(expiresAt) ==
    LET t == ParseRFC3339(expiresAt) IN
       IF expiresAt # <<>> /\ t.ok /\ t.t > now THEN t.t + ExpiryGrace ELSE now + DefaultLock

\* bumpActiveLock: the new activeLockUntil
BumpLeavesLock == activeLockUntil
bumpActiveLock ==
    IF activeLockUntil < now + ActiveBackoff THEN now + ActiveBackoff ELSE activeLockUntil

\* clearActiveLock(id)
ClearKeepsUntil(id) ==
    IF id = "" \/ id = activePaymentID
      THEN [id |-> "", until |-> activeLockUntil]
      ELSE [id |-> activePaymentID, until |-> activeLockUntil]
clearActiveLock(id) ==
    IF id = "" \/ id = activePaymentID
      THEN [id |-> "", until |-> 0]
      ELSE [id |-> activePaymentID, until |-> activeLockUntil]

\* storeTakeID(hexID, numericID)
storeTakeID(hexID, numericID) ==
    IF hexID = "" \/ numericID = 0 THEN takeMap
    ELSE [x \in DOMAIN takeMap \cup {hexID} |-> IF x = hexID THEN numericID ELSE takeMap[x]]

\* fmt.Sprintf("%d", num)
SprintfD(num) == ToString(num)

\* buildPaidKeyboard(accID, p): the callback_data of the two buttons, each the
\* fields fmt.Sprintf joins with ":"
KeyboardWithoutFee(accID, p) ==
    IF p.ID = "" \/ accID = 0 THEN NoMarkup
    ELSE [paid |-> <<"paid", SprintfD(accID), p.ID, p.InAmount, p.ExchangeRate>>,
          cancel |-> <<"cancel", SprintfD(accID), p.ID>>]
buildPaidKeyboard(accID, p) ==
    IF p.ID = "" \/ accID = 0 THEN NoMarkup
    ELSE [paid |-> <<"paid", SprintfD(accID), p.ID, p.InAmount, p.ExchangeRate, p.FeeAmount>>,
          cancel |-> <<"cancel", SprintfD(accID), p.ID>>]

\* sendTelegram / sendTelegramPhoto reach the chat API only with a bot token (the
\* process has one) and a chat id
CanSend == workerCfg.ChatID # 0

\* the amount filter of handleLivePayment: "pass", "below_min" or "above_max"
FilterNoMaxGuard(inAmount) ==
    LET a == ParseFloat(inAmount) IN
       IF ~a.ok THEN "pass"
       ELSE IF workerCfg.MinAmount.set /\ a.v < workerCfg.MinAmount.v THEN "below_min"
       ELSE IF workerCfg.MaxAmount.set /\ a.v > workerCfg.MaxAmount.v THEN "above_max"
       ELSE "pass"
AmountFilter(inAmount) ==
    LET a == ParseFloat(inAmount) IN
       IF ~a.ok THEN "pass"
       ELSE IF workerCfg.MinAmount.set /\ a.v < workerCfg.MinAmount.v THEN "below_min"
       ELSE IF workerCfg.MaxAmount.set /\ workerCfg.MaxAmount.v > 0 /\ a.v > workerCfg.MaxAmount.v THEN "above_max"
       ELSE "pass"

\* if _, ok := w.seen[p.ID]; ok { return }
SeenNever(id) == FALSE
SeenBefore(id) == id \in DOMAIN seen

\* isActiveLocked(now) as the accept path consults it
LockIgnored(t) == [locked |-> FALSE, id |-> activePaymentID, until |-> activeLockUntil]
LockCheck(t) == isActiveLocked(t)

-----------------------------------------------------------------------------
(* Worker.handleLivePayment *)

\* the ids the driver can deliver: one already delivered, or the next new one
\* (stream ids are opaque, so new ids are taken in order)
NextIds ==
    DOMAIN seen \cup
      {IdNames[i] : i \in {j \in 1..Len(IdNames) :
                                \A k \in 1..j : IdNames[k] \in DOMAIN seen \/ k = j}
                          \ {j \in 1..Len(IdNames) : IdNames[j] \in DOMAIN seen}}

\* handleLivePayment(p) up to the accept request: the dedup check, the record in
\* seen, the lock, the penalty window, the amount filter, and then either a return
\* or the request of TakeLivePayment
\* whether handleLivePayment goes on to TakeLivePayment after its checks
ProceedsBelowMin(outcome) == outcome \in {"take", "below_min"}
Proceeds(outcome) == outcome = "take"
HandlerAwaitsNotify == hpc = "idle" /\ notifyTasks = {}
HandlerFree == hpc = "idle"
HandleAdd(p) ==
    /\ HandlerFree
    /\ adds < MaxAdds
    /\ p \in Payments(workerCfg)
    /\ p.ID \in NextIds
    /\ adds' = adds + 1
    /\ IF SeenBefore(p.ID)
         THEN /\ lastEv' = [amount |-> p.InAmount, outcome |-> "dup", at |-> now]
              /\ UNCHANGED <<seen, activePaymentID, activeLockUntil, hpc, cur, takes>>
         ELSE LET lk == LockCheck(now)
                  outcome == IF lk.locked THEN "locked"
                             ELSE IF now < penaltyUntil THEN "penalty"
                             ELSE IF AmountFilter(p.InAmount) # "pass" THEN AmountFilter(p.InAmount)
                             ELSE "take"
              IN /\ seen' = [x \in DOMAIN seen \cup {p.ID} |-> IF x = p.ID THEN now ELSE seen[x]]
                 /\ activePaymentID' = lk.id
                 /\ activeLockUntil' = lk.until
                 /\ lastEv' = [amount |-> p.InAmount, outcome |-> outcome, at |-> now]
                 /\ IF Proceeds(outcome)
                      THEN /\ hpc' = "taking"
                           /\ cur' = p
                           /\ takes' = Append(takes, [id |-> p.ID, at |-> now])
                      ELSE UNCHANGED <<hpc, cur, takes>>
    /\ UNCHANGED <<workerCfg, now, ticks, penaltyUntil, penaltyReason, lastPenaltyNotified,
                   takeMap, notifyTasks, notes, accepted, penaltySeen, lastSettle,
                   lastTake>>
    /\ UNCHANGED <<mgrVars, auxVars>>

PenaltyNote(until, reason) == [until |-> until, reason |-> reason]

\* handleLivePayment from the return of TakeLivePayment to its own return
HandleTakeReturn(ans) ==
    /\ hpc = "taking"
    /\ hpc' = "idle"
    /\ cur' = NoPayment
    /\ LET r == TakeLivePayment(ans)
           pen == parsePenalty(r.err)
       IN IF ~r.ok
            THEN /\ lastTake' = [NoTake EXCEPT !.refused = RefusedCode(ans)]
                 /\ IF pen.ok
                      THEN LET sn == shouldNotifyPenalty(pen.until) IN
                           /\ penaltyUntil' = pen.until
                           /\ penaltyReason' = pen.reason
                           /\ lastPenaltyNotified' = sn.last
                           /\ notes' = IF sn.notify /\ CanSend
                                         THEN Append(notes, PenaltyNote(pen.until, pen.reason))
                                         ELSE notes
                           /\ penaltySeen' = Append(penaltySeen,
                                                [sent |-> SentPenaltyEnd(ans), json |-> SentAsJSON(ans)])
                           /\ UNCHANGED <<activePaymentID, activeLockUntil, takeMap, notifyTasks>>
                    ELSE IF isActiveExists(r.err)
                      THEN /\ activeLockUntil' = bumpActiveLock
                           /\ UNCHANGED <<penaltyUntil, penaltyReason, lastPenaltyNotified, notes,
                                          penaltySeen, activePaymentID, takeMap, notifyTasks>>
                    ELSE UNCHANGED <<penaltyUntil, penaltyReason, lastPenaltyNotified, notes,
                                     penaltySeen, activePaymentID, activeLockUntil, takeMap,
                                     notifyTasks>>
            ELSE /\ activePaymentID' = cur.ID
                 /\ activeLockUntil' = setActiveLock(cur.ExpiresAt)
                 /\ takeMap' = storeTakeID(cur.ID, r.dataId)
                 \* go w.notifyLiveAccepted(p, numericID)
                 /\ notifyTasks' = notifyTasks \cup {cur.ID}
                 /\ lastTake' = [ok |-> TRUE, dataId |-> r.dataId, started |-> 1,
                                 markup |-> buildPaidKeyboard(workerCfg.AccountID, cur),
                                 refused |-> ""]
                 /\ UNCHANGED <<penaltyUntil, penaltyReason, lastPenaltyNotified, notes,
                                penaltySeen>>
    /\ UNCHANGED <<workerCfg, now, ticks, adds, seen, takes, accepted, lastEv, lastSettle>>
    /\ UNCHANGED <<mgrVars, auxVars>>

\* a call of sendTelegramPhoto / sendTelegram for the payment id, and whether
\* sendTelegramPhoto returned an error
TgCall(call, id, err) == [call |-> call, id |-> id, err |-> err]
\* notifyLiveAccepted: sendTelegramPhoto(qrURL, caption, markup), and
\* sendTelegram(caption) when it returned an error
NotifyAlwaysText(id, photoOk) ==
    <<TgCall("sendTelegramPhoto", id, ~photoOk), TgCall("sendTelegram", id, FALSE)>>
NotifyCalls(id, photoOk) ==
    IF photoOk THEN <<TgCall("sendTelegramPhoto", id, FALSE)>>
    ELSE <<TgCall("sendTelegramPhoto", id, TRUE), TgCall("sendTelegram", id, FALSE)>>
\* notifyLiveAccepted, detached; sendTelegramPhoto returns an error without a
\* request when no chat is configured
NotifyLiveAccepted(id) ==
    /\ id \in notifyTasks
    /\ notifyTasks' = notifyTasks \ {id}
    /\ \E photoOk \in BOOLEAN :
         /\ photoOk => CanSend
         /\ accepted' = accepted \o NotifyCalls(id, photoOk)
    /\ UNCHANGED <<workerCfg, now, ticks, adds, wkState, hpc, cur, takes, notes, penaltySeen,
                   lastEv, lastSettle, lastTake>>
    /\ UNCHANGED <<mgrVars, auxVars>>

\* lookupTakeID(hexID)
lookupTakeID(hexID) ==
    IF hexID # "" /\ hexID \in DOMAIN takeMap
      THEN [num |-> takeMap[hexID], ok |-> TRUE]
      ELSE [num |-> 0, ok |-> FALSE]

\* the ids a caller passes: a stream id it was shown, the empty id, or the numeric
\* id the upstream gave for an accepted payment
SettleIds ==
    DOMAIN seen \cup {takes[i].id : i \in DOMAIN takes} \cup {""}
      \cup {SprintfD(takeMap[k]) : k \in DOMAIN takeMap}

\* CompletePayment / CancelPayment(paymentID) with the upstream answering ok or
\* not: the error returned ("" for nil), whether the upstream request was issued
\* and with which id, and the active lock afterwards. clearActiveLock(hexID) runs
\* only after the upstream call returned no error; takeMap is never written.
SettleClearsOnError(paymentID, upstreamOk) ==
    [err |-> IF workerCfg.P2CAccountID = "" THEN "no p2c account id configured"
             ELSE IF upstreamOk THEN "" ELSE "upstream error",
     asked |-> workerCfg.P2CAccountID # "",
     sent |-> "",
     lock |-> clearActiveLock(paymentID)]
Settle(paymentID, upstreamOk) ==
    IF workerCfg.P2CAccountID = ""
      THEN [err |-> "no p2c account id configured", asked |-> FALSE, sent |-> "",
            lock |-> [id |-> activePaymentID, until |-> activeLockUntil]]
      ELSE LET hexID == paymentID
               found == lookupTakeID(paymentID)
               sentID == IF found.ok THEN SprintfD(found.num) ELSE paymentID
           IN IF ~upstreamOk
                THEN [err |-> "upstream error", asked |-> TRUE, sent |-> sentID,
                      lock |-> [id |-> activePaymentID, until |-> activeLockUntil]]
                ELSE [err |-> "", asked |-> TRUE, sent |-> sentID,
                      lock |-> clearActiveLock(hexID)]

\* Worker.CompletePayment(paymentID) / Worker.CancelPayment(paymentID), the value it
\* returns not kept
CompleteOrCancel(paymentID) ==
    /\ paymentID \in SettleIds
    /\ \E upstreamOk \in BOOLEAN :
         /\ activePaymentID' = Settle(paymentID, upstreamOk).lock.id
         /\ activeLockUntil' = Settle(paymentID, upstreamOk).lock.until
    /\ UNCHANGED <<workerCfg, now, ticks, adds, seen, penaltyUntil, penaltyReason,
                   lastPenaltyNotified, takeMap, hpc, cur, notifyTasks, wkHist>>
    /\ UNCHANGED <<mgrVars, auxVars>>

\* the same call, with its argument and what it returned kept in lastSettle
SettleCall(paymentID) ==
    /\ paymentID \in SettleIds
    /\ \E upstreamOk \in BOOLEAN :
         LET r == Settle(paymentID, upstreamOk) IN
           /\ activePaymentID' = r.lock.id
           /\ activeLockUntil' = r.lock.until
           /\ lastSettle' = [id |-> paymentID, asked |-> r.asked, sent |-> r.sent,
                             res |-> IF r.err = "" THEN "ok" ELSE r.err,
                             seq |-> 1 - lastSettle.seq]
    /\ UNCHANGED <<workerCfg, now, ticks, adds, seen, penaltyUntil, penaltyReason,
                   lastPenaltyNotified, takeMap, hpc, cur, notifyTasks, takes, notes,
                   accepted, penaltySeen, lastEv, lastTake>>
    /\ UNCHANGED <<mgrVars, auxVars>>

\* Manager.ReloadAccount(cfg) with cfg.Active and cfg.AutoMode, for the account of
\* this Worker: Stop() returns once the supervisor goroutine (and with it the
\* handler) has returned, and NewWorker builds the Worker the map holds from then
\* on, with new seen and takeMap maps and every other field zero
ReloadReplacesWorker ==
    /\ hpc = "idle"
    /\ seen' = EmptyMap
    /\ takeMap' = EmptyMap
    /\ penaltyUntil' = 0
    /\ penaltyReason' = ""
    /\ lastPenaltyNotified' = 0
    /\ activePaymentID' = ""
    /\ activeLockUntil' = 0
    /\ UNCHANGED <<workerCfg, now, ticks, adds, hpc, cur, notifyTasks, wkHist>>
    /\ UNCHANGED <<mgrVars, auxVars>>

\* time passes
Tick(d) ==
    /\ ticks < MaxTicks
    /\ ticks' = ticks + 1
    /\ now' = now + d
    /\ UNCHANGED <<workerCfg, adds, wkState, hpc, cur, notifyTasks, wkHist>>
    /\ UNCHANGED <<mgrVars, auxVars>>

WkNext ==
    \/ \E p \in AllPayments : HandleAdd(p)
    \/ \E ans \in TakeAnswers : HandleTakeReturn(ans)
    \/ \E id \in StreamIds : NotifyLiveAccepted(id)
    \/ \E id \in StreamIds \cup {""} \cup {SprintfD(n) : n \in NumericIds} : CompleteOrCancel(id)
    \/ \E d \in TickSteps : Tick(d)

-----------------------------------------------------------------------------
(* The subscription driver's steady-state loop on one connection            *)
(* (SubscribeSocket): the virtual list, first-seen times and the handler.    *)

\* Bound of the driver machine: list:update entries in one frame
MaxUpdates == 2

\* *int: nil, or a value
NoPos == [set |-> FALSE, v |-> 0]
Pos(v) == [set |-> TRUE, v |-> v]
\* *LivePayment: nil, or a payment (its ID)
NoData == [set |-> FALSE, ID |-> ""]
Data(id) == [set |-> TRUE, ID |-> id]
\* listUpdate
Upd(op, data, pos) == [op |-> op, data |-> data, pos |-> pos]

DrvIds == {"X", "Y"}
DrvPositions == {NoPos, Pos(0 - 1), Pos(0), Pos(1), Pos(9)}
DrvUpdates ==
    {Upd("add", Data(id), p) : id \in DrvIds, p \in DrvPositions}
      \cup {Upd("add", NoData, NoPos)}
      \cup {Upd("remove", NoData, p) : p \in DrvPositions}
\* the list:snapshot frames
DrvSnapshots == {<<>>, <<"X", "Y", "Z">>, <<"X", "X">>}
\* a frame read from the connection
Frame(kind, ids) == [kind |-> kind, ids |-> ids]
\* the frames the driver writes
PongFrame == "3"
ListInitFrame == "42[\"list:initialize\"]"
\* frames that are neither "2", nor begin with "40" or "42"
CtrlFrames == {"3", "41", ""}

DrvInit ==
    /\ listIDs = <<>>
    /\ addTimes = EmptyMap
    /\ pending = 0
    /\ applied = <<>>
    /\ hBusy = ""
    /\ invoked = <<>>
    /\ lastRead = Frame("none", <<>>)
    /\ written = <<>>
    /\ loopRet = FALSE

\* for i, id := range listIDs { if id == x { remove it; break } }
RemoveFirst(s, x) ==
    IF \E i \in 1..Len(s) : s[i] = x
      THEN LET i == CHOOSE k \in 1..Len(s) : s[k] = x /\ \A j \in 1..(k - 1) : s[j] # x
           IN SubSeq(s, 1, i - 1) \o SubSeq(s, i + 1, Len(s))
      ELSE s

\* the position an add inserts at, in a list of length n
AddPos(pos, n) == IF pos.set /\ pos.v >= 0 /\ pos.v <= n THEN pos.v ELSE 0

\* append(listIDs[:pos], append([]string{x}, listIDs[pos:]...)...)
InsertAt(s, pos, x) == SubSeq(s, 1, pos) \o <<x>> \o SubSeq(s, pos + 1, Len(s))

\* op=add with data: the new list
ListAfterAdd(s, u) ==
    LET base == RemoveFirst(s, u.data.ID) IN InsertAt(base, AddPos(u.pos, Len(base)), u.data.ID)
\* op=add with data: the new first-seen times
TimesAfterAdd(m, u) ==
    IF u.data.ID \in DOMAIN m THEN m
    ELSE [x \in DOMAIN m \cup {u.data.ID} |-> IF x = u.data.ID THEN now ELSE m[x]]

\* op=remove: whether pos names an element of the list
RemoveInRange(s, u) == u.pos.set /\ u.pos.v >= 0 /\ u.pos.v < Len(s)
\* append(listIDs[:pos], listIDs[pos+1:]...)
ListKeepsRemoved(s, u) == s
ListAfterRemove(s, u) ==
    IF RemoveInRange(s, u) THEN SubSeq(s, 1, u.pos.v) \o SubSeq(s, u.pos.v + 2, Len(s)) ELSE s
\* delete(addTimes, id)
TimesLostOnDesync(m, s, u) ==
    IF RemoveInRange(s, u) THEN [x \in DOMAIN m \ {s[u.pos.v + 1]} |-> m[x]] ELSE EmptyMap
TimesAfterRemove(m, s, u) ==
    IF RemoveInRange(s, u) THEN [x \in DOMAIN m \ {s[u.pos.v + 1]} |-> m[x]] ELSE m

\* if u.Op == "add" && u.Data != nil { ...; handler(*u.Data) }
HandlerOnFirstSight(u) == u.op = "add" /\ u.data.set /\ u.data.ID \notin DOMAIN addTimes
HandlerFor(u) == u.op = "add" /\ u.data.set

\* a 42["list:update", [...]] frame of n entries is read: its entries are applied
\* one by one
DrvReadUpdate(n) ==
    /\ pending = 0 /\ hBusy = "" /\ ~loopRet
    /\ pending' = n
    /\ applied' = <<>>
    /\ invoked' = <<>>
    /\ lastRead' = Frame("list:update", <<>>)
    /\ written' = <<>>
    /\ UNCHANGED <<listIDs, addTimes, hBusy, loopRet>>
    /\ UNCHANGED notDrv

\* a 42["list:snapshot", [...]] frame is read
DrvReadSnapshot(ids) ==
    /\ pending = 0 /\ hBusy = "" /\ ~loopRet
    /\ listIDs' = ids
    /\ addTimes' = [x \in {ids[i] : i \in DOMAIN ids} |-> now]
    /\ applied' = <<>>
    /\ invoked' = <<>>
    /\ lastRead' = Frame("list:snapshot", ids)
    /\ written' = <<>>
    /\ UNCHANGED <<pending, hBusy, loopRet>>
    /\ UNCHANGED notDrv

\* a frame that begins with 40 (namespace ack) is read: the list state is reset
\* and 42["list:initialize"] is written; a failed write makes SubscribeSocket return
AckKeepsList == listIDs
AckResetsList == <<>>
DrvReadAck ==
    /\ pending = 0 /\ hBusy = "" /\ ~loopRet
    /\ listIDs' = AckResetsList
    /\ addTimes' = EmptyMap
    /\ applied' = <<>>
    /\ invoked' = <<>>
    /\ lastRead' = Frame("40", <<>>)
    /\ written' = <<ListInitFrame>>
    /\ \E writeOk \in BOOLEAN : loopRet' = ~writeOk
    /\ UNCHANGED <<pending, hBusy>>
    /\ UNCHANGED notDrv

\* the server's ping "2" is read: "3" is written, the result of the write ignored
PingUnanswered == <<>>
PingAnswer == <<PongFrame>>
DrvReadPing ==
    /\ pending = 0 /\ hBusy = "" /\ ~loopRet
    /\ lastRead' = Frame("2", <<>>)
    /\ written' = PingAnswer
    /\ applied' = <<>>
    /\ invoked' = <<>>
    /\ UNCHANGED <<listIDs, addTimes, pending, hBusy, loopRet>>
    /\ UNCHANGED notDrv

\* any other frame that is not a 42 event is logged and skipped
DrvReadCtrl(f) ==
    /\ pending = 0 /\ hBusy = "" /\ ~loopRet
    /\ lastRead' = Frame(f, <<>>)
    /\ written' = <<>>
    /\ applied' = <<>>
    /\ invoked' = <<>>
    /\ UNCHANGED <<listIDs, addTimes, pending, hBusy, loopRet>>
    /\ UNCHANGED notDrv

\* the body of "for _, u := range updates" for the next entry u of the frame, up
\* to the call of the handler
DrvApply(u) ==
    /\ pending > 0 /\ hBusy = ""
    /\ pending' = pending - 1
    /\ applied' = Append(applied, u)
    /\ IF u.op = "add" /\ u.data.set
         THEN /\ listIDs' = ListAfterAdd(listIDs, u)
              /\ addTimes' = TimesAfterAdd(addTimes, u)
         ELSE IF u.op = "remove"
           THEN /\ listIDs' = ListAfterRemove(listIDs, u)
                /\ addTimes' = TimesAfterRemove(addTimes, listIDs, u)
         ELSE UNCHANGED <<listIDs, addTimes>>
    /\ IF HandlerFor(u)
         THEN /\ hBusy' = u.data.ID
              /\ invoked' = Append(invoked, u.data.ID)
         ELSE UNCHANGED <<hBusy, invoked>>
    /\ UNCHANGED <<lastRead, written, loopRet>>
    /\ UNCHANGED notDrv

\* handler(*u.Data) returns
DrvHandlerReturn ==
    /\ hBusy # ""
    /\ hBusy' = ""
    /\ UNCHANGED <<listIDs, addTimes, pending, applied, invoked, lastRead, written, loopRet>>
    /\ UNCHANGED notDrv

DrvNext ==
    \/ \E n \in 1..MaxUpdates : DrvReadUpdate(n)
    \/ \E ids \in DrvSnapshots : DrvReadSnapshot(ids)
    \/ DrvReadAck
    \/ DrvReadPing
    \/ \E f \in CtrlFrames : DrvReadCtrl(f)
    \/ \E u \in DrvUpdates : DrvApply(u)
    \/ DrvHandlerReturn

-----------------------------------------------------------------------------
(* Worker.allowRequest: the sliding window of the polling path *)

\* Program constants: window := 5 * time.Minute (seconds), limit := 180
RlWindow == 300
RlLimit == 180
\* Bound: calls of allowRequest after the initial history
MaxRlCalls == 4

\* time between two calls
RlSteps == {0, 1, RlWindow, RlWindow + 1}
\* the history after k calls at StartTime, none of them refused
RlFill(k) == [i \in 1..k |-> StartTime]
RlPrefills == {0, RlLimit - 1, RlLimit}

RlInit ==
    /\ \E k \in RlPrefills : reqHistory = RlFill(k) /\ allowedLog = RlFill(k)
    /\ rlNow = StartTime
    /\ rlCalls = 0
    /\ rlLast = "none"

RlFrozen ==
    /\ reqHistory = <<>>
    /\ allowedLog = <<>>
    /\ rlNow = StartTime
    /\ rlCalls = 0
    /\ rlLast = "none"

\* now.Sub(ts) <= window ends the scan: older entries are dropped
ExpiredAtWindow(t, ts) == t - ts >= RlWindow
Expired(t, ts) == t - ts > RlWindow

\* idx: the number of leading entries of h that are expired at t
LeadingExpired(h, t) ==
    IF \E i \in 1..Len(h) : ~Expired(t, h[i])
      THEN (CHOOSE i \in 1..Len(h) : ~Expired(t, h[i]) /\ \A j \in 1..(i - 1) : Expired(t, h[j])) - 1
      ELSE Len(h)

\* the window after the cleanup
Pruned(h, t) ==
    LET idx == LeadingExpired(h, t) IN
       IF idx > 0 /\ idx < Len(h) THEN SubSeq(h, idx + 1, Len(h))
       ELSE IF idx >= Len(h) THEN <<>>
       ELSE h

\* allowRequest(now), called d seconds after the previous call
AllowRequest(d) ==
    /\ rlCalls < MaxRlCalls
    /\ rlCalls' = rlCalls + 1
    /\ rlNow' = rlNow + d
    /\ LET h == Pruned(reqHistory, rlNow + d) IN
         IF Len(h) >= RlLimit
           THEN /\ reqHistory' = h
                /\ rlLast' = "refused"
                /\ UNCHANGED allowedLog
           ELSE /\ reqHistory' = Append(h, rlNow + d)
                /\ rlLast' = "allowed"
                /\ allowedLog' = Append(allowedLog, rlNow + d)
    /\ UNCHANGED notRl

RlNext == \E d \in RlSteps : AllowRequest(d)

-----------------------------------------------------------------------------
(* Worker.Start called any number of times on one Worker, and Worker.Stop *)

\* Bound: calls of Start on the Worker
MaxStarts == 2
Tasks == 1..MaxStarts
NoTask == 0

StCfgs == {MkCfg(1, a, m) : a \in BOOLEAN, m \in BOOLEAN}

StInit ==
    /\ stCfg \in StCfgs
    /\ stStarts = 0
    /\ stTask = [g \in Tasks |-> "none"]
    /\ stCancel = NoTask
    /\ stCtxDone = {}
    /\ stDoneCloses = 0
    /\ stStop = "none"
    /\ stPanic = FALSE
    /\ stDialed = FALSE

StFrozen ==
    /\ stCfg = MkCfg(1, FALSE, FALSE)
    /\ stStarts = 0
    /\ stTask = [g \in Tasks |-> "none"]
    /\ stCancel = NoTask
    /\ stCtxDone = {}
    /\ stDoneCloses = 0
    /\ stStop = "none"
    /\ stPanic = FALSE
    /\ stDialed = FALSE

\* Start(): go func() { ... }()
StStart ==
    /\ ~stPanic
    /\ stStarts < MaxStarts
    /\ stStarts' = stStarts + 1
    /\ stTask' = [stTask EXCEPT ![stStarts + 1] = "spawned"]
    /\ UNCHANGED <<stCfg, stCancel, stCtxDone, stDoneCloses, stStop, stPanic, stDialed>>
    /\ UNCHANGED notSt

\* the deferred close(w.doneCh) of task g: closing a closed channel panics
StCloseDone(g) ==
    IF stDoneCloses >= 1
      THEN /\ stPanic' = TRUE
           /\ UNCHANGED <<stDoneCloses, stTask>>
      ELSE /\ stDoneCloses' = stDoneCloses + 1
           /\ stTask' = [stTask EXCEPT ![g] = "exited"]
           /\ UNCHANGED stPanic

\* the goroutine begins: the cfg check, then context.WithCancel and w.cancel = cancel
StTaskInit(g) ==
    /\ ~stPanic
    /\ stTask[g] = "spawned"
    /\ IF Enabled(stCfg)
         THEN /\ stCancel' = g
              /\ stTask' = [stTask EXCEPT ![g] = "dial"]
              /\ UNCHANGED <<stDoneCloses, stPanic>>
         ELSE /\ StCloseDone(g)
              /\ UNCHANGED stCancel
    /\ UNCHANGED <<stCfg, stStarts, stCtxDone, stStop, stDialed>>
    /\ UNCHANGED notSt

\* p2c.SubscribeSocket(ctx, ...): the dial (DialContext fails once the context is
\* cancelled), then the read loop until it returns
StTaskDial(g) ==
    /\ ~stPanic
    /\ stTask[g] = "dial"
    /\ stDialed' = TRUE
    /\ \E ok \in BOOLEAN :
         /\ ok => g \notin stCtxDone
         /\ stTask' = [stTask EXCEPT ![g] = IF ok THEN "loop" ELSE "backoff"]
    /\ UNCHANGED <<stCfg, stStarts, stCancel, stCtxDone, stDoneCloses, stStop, stPanic>>
    /\ UNCHANGED notSt

\* the read loop returns: ctx.Done() seen, or a read error
StTaskLoopEnds(g) ==
    /\ ~stPanic
    /\ stTask[g] = "loop"
    /\ stTask' = [stTask EXCEPT ![g] = "backoff"]
    /\ UNCHANGED <<stCfg, stStarts, stCancel, stCtxDone, stDoneCloses, stStop, stPanic, stDialed>>
    /\ UNCHANGED notSt

\* the select is entered with the context not cancelled: the goroutine blocks in it
StSelectAlwaysBlocks(g) == TRUE
StSelectBlocks(g) == g \notin stCtxDone
StTaskWait(g) ==
    /\ ~stPanic
    /\ stTask[g] = "backoff"
    /\ StSelectBlocks(g)
    /\ stTask' = [stTask EXCEPT ![g] = "wait"]
    /\ UNCHANGED <<stCfg, stStarts, stCancel, stCtxDone, stDoneCloses, stStop, stPanic, stDialed>>
    /\ UNCHANGED notSt

\* select: case <-ctx.Done(): return
StTaskExit(g) ==
    /\ ~stPanic
    /\ stTask[g] \in {"backoff", "wait"}
    /\ g \in stCtxDone
    /\ StCloseDone(g)
    /\ UNCHANGED <<stCfg, stStarts, stCancel, stCtxDone, stStop, stDialed>>
    /\ UNCHANGED notSt

\* select: case <-time.After(5 * time.Second)
StTaskRedial(g) ==
    /\ ~stPanic
    /\ stTask[g] = "wait"
    /\ stTask' = [stTask EXCEPT ![g] = "dial"]
    /\ UNCHANGED <<stCfg, stStarts, stCancel, stCtxDone, stDoneCloses, stStop, stPanic, stDialed>>
    /\ UNCHANGED notSt

\* Stop(): w.cancel() when set, close(w.stopCh), then the wait on doneCh
StStop ==
    /\ ~stPanic
    /\ stStop = "none"
    /\ stStarts >= 1
    /\ stCtxDone' = IF stCancel # NoTask THEN stCtxDone \cup {stCancel} ELSE stCtxDone
    /\ stStop' = "waiting"
    /\ UNCHANGED <<stCfg, stStarts, stTask, stCancel, stDoneCloses, stPanic, stDialed>>
    /\ UNCHANGED notSt

\* <-w.doneCh
StStopReturn ==
    /\ ~stPanic
    /\ stStop = "waiting"
    /\ stDoneCloses >= 1
    /\ stStop' = "returned"
    /\ UNCHANGED <<stCfg, stStarts, stTask, stCancel, stCtxDone, stDoneCloses, stPanic, stDialed>>
    /\ UNCHANGED notSt

StNext ==
    \/ StStart
    \/ \E g \in Tasks : StTaskInit(g)
    \/ \E g \in Tasks : StTaskDial(g)
    \/ \E g \in Tasks : StTaskLoopEnds(g)
    \/ \E g \in Tasks : StTaskWait(g)
    \/ \E g \in Tasks : StTaskExit(g)
    \/ \E g \in Tasks : StTaskRedial(g)
    \/ StStop
    \/ StStopReturn

-----------------------------------------------------------------------------
(* urlEncode and the QR link of notifyLiveAccepted.  A URL is a sequence of *)
(* characters.                                                              *)

\* Bound: length of the payment URL
MaxUrlLen == 3
\* an unreserved character, the space, the plus sign, and two characters that
\* url.QueryEscape escapes
UrlChars == {"a", " ", "+", "/", "%"}
Unreserved == {"a"}
\* the two upper-case hex digits of a character's byte
HexOf(c) ==
    CASE c = " " -> <<"2", "0">>
      [] c = "+" -> <<"2", "B">>
      [] c = "/" -> <<"2", "F">>
      [] c = "%" -> <<"2", "5">>

RECURSIVE FlatMap(_, _)
FlatMap(F(_), u) == IF u = <<>> THEN <<>> ELSE F(Head(u)) \o FlatMap(F, Tail(u))

\* url.QueryEscape: unreserved characters as they are, the space as "+", every
\* other character as %XX
EscapeChar(c) ==
    IF c \in Unreserved THEN <<c>>
    ELSE IF c = " " THEN <<"+">>
    ELSE <<"%">> \o HexOf(c)
QueryEscape(u) == FlatMap(EscapeChar, u)

\* strings.ReplaceAll(s, "+", "%20")
PlusToPercent20(c) == IF c = "+" THEN <<"%", "2", "0">> ELSE <<c>>
ReplaceAllPlus(t) == FlatMap(PlusToPercent20, t)

\* urlEncode(s)
urlEncodeNoReplace(u) == QueryEscape(u)
urlEncode(u) == ReplaceAllPlus(QueryEscape(u))

\* fmt.Sprintf("https://quickchart.io/qr?text=%s&size=200", urlEncode(p.URL))
QrURL(u) == <<"https://quickchart.io/qr?text=">> \o urlEncode(u) \o <<"&size=200">>

RECURSIVE UrlsOfLen(_)
UrlsOfLen(n) ==
    IF n = 0 THEN {<<>>}
    ELSE {Append(u, c) : u \in UrlsOfLen(n - 1), c \in UrlChars}
Urls == UNION {UrlsOfLen(n) : n \in 0..MaxUrlLen}

QrInit == qrIn \in Urls /\ qrOut = <<>>
QrFrozen == qrIn = <<>> /\ qrOut = <<>>

\* notifyLiveAccepted builds the link
BuildQrURL ==
    /\ qrOut = <<>>
    /\ qrOut' = QrURL(qrIn)
    /\ UNCHANGED qrIn
    /\ UNCHANGED notQr

QrNext == BuildQrURL

-----------------------------------------------------------------------------
(* SubscribeSocket from its call to the read loop: eioHandshake, then           *)
(* eioWebsocket (the dial and the Engine.IO upgrade)                            *)

UpTokens == {"", "tok"}
UpSids == {"s1", "s2"}
UpNoReply == "none"
\* the frames the server may send first on the new connection
UpReplies == {"3probe", "3", "2probe", "3probe ", "40", "6", "5", ""}

UpInit ==
    /\ upPc = "handshake"
    /\ upToken \in UpTokens
    /\ upCtxDone = FALSE
    /\ upSid = ""
    /\ upCookie = <<>>
    /\ upConn = "none"
    /\ upSent = <<>>
    /\ upReply = UpNoReply
    /\ upErr = ""

UpFrozen ==
    /\ upPc = "handshake"
    /\ upToken = ""
    /\ upCtxDone = FALSE
    /\ upSid = ""
    /\ upCookie = <<>>
    /\ upConn = "none"
    /\ upSent = <<>>
    /\ upReply = UpNoReply
    /\ upErr = ""

\* the caller cancels ctx
UpCancel ==
    /\ ~upCtxDone
    /\ upPc \notin {"loop", "returned"}
    /\ upCtxDone' = TRUE
    /\ UNCHANGED <<upPc, upToken, upSid, upCookie, upConn, upSent, upReply, upErr>>
    /\ UNCHANGED notUp

\* eioHandshake(baseURL, accessToken): the polling request that yields the sid;
\* it takes no context
UpHandshake ==
    /\ upPc = "handshake"
    /\ \/ \E sid \in UpSids :
            /\ upSid' = sid
            /\ upPc' = "dial"
            /\ UNCHANGED upErr
       \/ /\ upPc' = "returned"
          /\ upErr' = "handshake"
          /\ UNCHANGED upSid
    /\ UNCHANGED <<upToken, upCtxDone, upCookie, upConn, upSent, upReply>>
    /\ UNCHANGED notUp

\* eioWebsocket: the headers and dialer.DialContext(ctx, wsURL, header), which
\* fails once ctx is cancelled
UpDial ==
    /\ upPc = "dial"
    /\ upCookie' = IF upToken # "" THEN <<"access_token=", upToken>> ELSE <<>>
    /\ \E ok \in BOOLEAN :
         /\ ok => ~upCtxDone
         /\ IF ok
              THEN /\ upConn' = "open"
                   /\ upPc' = "probe"
                   /\ UNCHANGED upErr
              ELSE /\ upPc' = "returned"
                   /\ upErr' = "dial ws"
                   /\ UNCHANGED upConn
    /\ UNCHANGED <<upToken, upCtxDone, upSid, upSent, upReply>>
    /\ UNCHANGED notUp

\* conn.WriteMessage(text) in eioWebsocket: on success the frame is sent and
\* eioWebsocket goes on at position next; on failure the connection is closed and
\* the error returned
UpWrite(text, next) ==
    /\ \E ok \in BOOLEAN :
         IF ok
           THEN /\ upSent' = Append(upSent, text)
                /\ upPc' = next
                /\ UNCHANGED <<upConn, upErr>>
           ELSE /\ upConn' = "closed"
                /\ upPc' = "returned"
                /\ upErr' = "dial ws"
                /\ UNCHANGED upSent
    /\ UNCHANGED <<upToken, upCtxDone, upSid, upCookie, upReply>>
    /\ UNCHANGED notUp

UpWriteProbe ==
    /\ upPc = "probe"
    /\ UpWrite("2probe", "read")

\* if string(respMsg) != "3probe" { conn.Close(); return nil, "probe failed" }
ProbeAnsweredByPong(r) == r \in {"3probe", "3"}
ProbeAnswered(r) == r = "3probe"
\* conn.ReadMessage() of the probe's answer, and the test of it
UpReadProbe ==
    /\ upPc = "read"
    /\ \/ \E r \in UpReplies :
            /\ upReply' = r
            /\ IF ProbeAnswered(r)
                 THEN /\ upPc' = "upgrade"
                      /\ UNCHANGED <<upConn, upErr>>
                 ELSE /\ upConn' = "closed"
                      /\ upPc' = "returned"
                      /\ upErr' = "dial ws"
       \/ /\ upConn' = "closed"
          /\ upPc' = "returned"
          /\ upErr' = "dial ws"
          /\ UNCHANGED upReply
    /\ UNCHANGED <<upToken, upCtxDone, upSid, upCookie, upSent>>
    /\ UNCHANGED notUp

UpWriteUpgrade ==
    /\ upPc = "upgrade"
    /\ UpWrite("5", "connect")
\* the connect to the default namespace; eioWebsocket returns the connection and
\* SubscribeSocket enters its read loop
UpWriteConnect ==
    /\ upPc = "connect"
    /\ UpWrite("40", "loop")

UpNext ==
    \/ UpCancel
    \/ UpHandshake
    \/ UpDial
    \/ UpWriteProbe
    \/ UpReadProbe
    \/ UpWriteUpgrade
    \/ UpWriteConnect

-----------------------------------------------------------------------------
\* the machines beside the Manager and the Worker accept path, at rest
AuxFrozen == DrvInit /\ RlFrozen /\ StFrozen /\ QrFrozen /\ UpFrozen

Init == MgrInit /\ WkFrozen /\ AuxFrozen
Next == MgrNext
Spec == Init /\ [][Next]_vars

WorkerInit == WkInit /\ MgrInit /\ AuxFrozen
WorkerSpec == WorkerInit /\ [][WkNext]_vars

\* the Worker from the delivery of payments to the calls that settle them, each
\* call's return value kept
SettleNext ==
    \/ \E p \in AllPayments : HandleAdd(p)
    \/ \E ans \in TakeAnswers : HandleTakeReturn(ans)
    \/ \E id \in StreamIds : NotifyLiveAccepted(id)
    \/ \E id \in StreamIds \cup {""} \cup {SprintfD(n) : n \in NumericIds} : SettleCall(id)
SettleSpec == WorkerInit /\ [][SettleNext]_vars

\* the Worker the Manager's map holds for the account, across ReloadAccount calls
\* that replace it
ReplaceNext == SettleNext \/ ReloadReplacesWorker
ReplaceSpec == WorkerInit /\ [][ReplaceNext]_vars

DriverInit == DrvInit /\ MgrInit /\ WkFrozen /\ RlFrozen /\ StFrozen /\ QrFrozen /\ UpFrozen
DriverSpec == DriverInit /\ [][DrvNext]_vars

LimiterInit == RlInit /\ MgrInit /\ WkFrozen /\ DrvInit /\ StFrozen /\ QrFrozen /\ UpFrozen
LimiterSpec == LimiterInit /\ [][RlNext]_vars

StartInit == StInit /\ MgrInit /\ WkFrozen /\ DrvInit /\ RlFrozen /\ QrFrozen /\ UpFrozen

QrLinkInit == QrInit /\ MgrInit /\ WkFrozen /\ DrvInit /\ RlFrozen /\ StFrozen /\ UpFrozen
QrSpec == QrLinkInit /\ [][QrNext]_vars

UpgradeInit == UpInit /\ MgrInit /\ WkFrozen /\ DrvInit /\ RlFrozen /\ StFrozen /\ QrFrozen
UpgradeSpec == UpgradeInit /\ [][UpNext]_vars
StartSpec == StartInit /\ [][StNext]_vars

\* the goroutines are scheduled, the 5 s timer fires, and a driver whose context
\* is cancelled gets its read back (a frame or an error) and returns
StFairness ==
    \A g \in Tasks :
       /\ WF_vars(StTaskInit(g))
       /\ WF_vars(StTaskDial(g))
       /\ WF_vars(g \in stCtxDone /\ StTaskLoopEnds(g))
       /\ WF_vars(StTaskWait(g))
       /\ WF_vars(StTaskRedial(g))
       /\ SF_vars(StTaskExit(g))
StartSpecFair == StartSpec /\ StFairness

\* Scheduling: every goroutine that can take a step eventually takes one; a pending
\* read eventually returns (the server pings every pingInterval, or the connection
\* fails); a supervisor that keeps coming back to its select with the context
\* cancelled eventually takes the ctx.Done() case.
MgrFairness ==
    /\ \A w \in WorkerIds :
          /\ WF_vars(SupInit(w))
          /\ WF_vars(SupDial(w))
          /\ WF_vars(SupLoop(w))
          /\ WF_vars(SupRead(w))
          /\ WF_vars(SupWait(w))
          /\ WF_vars(SupRedial(w))
          /\ SF_vars(SupExit(w))
    /\ \A c \in Callers :
          WF_vars(RlWait(c) \/ RlFinish(c) \/ SaNext(c) \/ SaWait(c)
                  \/ RouteReload(c) \/ RouteRelookup(c) \/ RouteCall(c))
SpecFair == Spec /\ MgrFairness

-----------------------------------------------------------------------------
(* Claims about the Manager and the Worker life cycle *)

SameAccount(w1, w2) == wCfg[w1].AccountID = wCfg[w2].AccountID

\* C1: at any moment at most one Worker per account_id has a supervisor task that
\* was started and has not yet exited, and a Worker's supervisor is started only
\* after the supervisor of every earlier Worker of the same account has exited.
C1_OneSupervisorPerAccount ==
    /\ \A a \in Accounts :
          Cardinality({w \in WorkerIds : wCfg[w].AccountID = a /\ SupAlive(w)}) <= 1
    /\ \A w1 \in WorkerIds, w2 \in WorkerIds :
          (w1 < w2 /\ SameAccount(w1, w2) /\ sup[w2] # "none") => sup[w1] = "exited"

\* a reload replaced a Worker: the old supervisor has exited, the new one runs
C1_Witness ==
    \E w1 \in WorkerIds, w2 \in WorkerIds :
        /\ w1 < w2 /\ SameAccount(w1, w2)
        /\ sup[w1] = "exited" /\ SupAlive(w2)

\* C2: when ReloadAccount(cfg) returns, the workers map has an entry for
\* cfg.AccountID iff cfg.Active /\ cfg.AutoMode, and the Worker it stopped (the
\* entry it found) has no running supervisor.
C2_ReloadMapIffEnabled ==
    [][\A c \in Callers :
         (pc[c] = "rl_finish" /\ pc'[c] # "rl_finish") =>
            /\ (workers'[frame[c].cfg.AccountID] # NoWorker) <=> Enabled(frame[c].cfg)
            /\ frame[c].w # NoWorker => sup'[frame[c].w] = "exited"]_vars

\* a reload with active = false (or auto_mode = false) returned after stopping the
\* running Worker of the account, and the account has no entry
C2_Witness ==
    /\ lastRet.op = "reload" /\ lastRet.res = "ok"
    /\ ~Enabled(lastRet.cfg)
    /\ lastRet.w # NoWorker
    /\ sup[lastRet.w] = "exited"
    /\ workers[lastRet.cfg.AccountID] = NoWorker

\* C3: a routing call (TakeOrder / CompletePayment / CancelPayment) for an account
\* with no Worker reaches a Worker: the Worker it calls is never missing and the
\* call never ends in a nil dereference.
C3_RouteReachesWorker ==
    /\ \A c \in Callers : pc[c] = "rt_call" => frame[c].w # NoWorker
    /\ lastRet.op \in RouteOps => lastRet.res # "panic_nil"

InStop(c) == pc[c] \in {"rl_wait", "sa_wait"}

\* C4: every Worker.Stop() on a started Worker eventually returns, whatever the
\* interleaving with the supervisor's start-up and with a driver blocked in a read.
C4_StopReturns == \A c \in Callers : InStop(c) ~> ~InStop(c)

-----------------------------------------------------------------------------
(* Claims about the accept path of one Worker *)

\* C5: for one Worker and any stream id, two accept requests for the same id are
\* at least the dedup TTL (10 minutes) apart, however many Adds the driver
\* delivers for the id: a second Add for an id first seen less than 10 minutes
\* ago issues no accept request.
C5_AcceptOncePerTTL ==
    \A i, j \in DOMAIN takes :
       (i < j /\ takes[i].id = takes[j].id) => takes[j].at - takes[i].at >= SeenTTL

\* an id was accepted, and an Add for it delivered a second later was dropped as a
\* duplicate
C5_Witness ==
    /\ adds = 2 /\ DOMAIN seen = {"A"}
    /\ Len(takes) = 1 /\ takes[1].id = "A"
    /\ lastEv.outcome = "dup"
    /\ now > takes[1].at /\ now - takes[1].at < SeenTTL

\* C6: in every reachable Worker state with now < active.until and
\* active.payment_id # "", no step issues an accept request upstream.
C6_NoAcceptWhileLocked ==
    [][(now < activeLockUntil /\ activePaymentID # "") => takes' = takes]_vars

\* an Add arrived under the lock of an accepted payment and was skipped
C6_Witness ==
    /\ lastEv.outcome = "locked"
    /\ activePaymentID # "" /\ now < activeLockUntil
    /\ adds = 2 /\ Len(takes) = 1 /\ takes[1].id = activePaymentID

\* C7: after an accept attempt was refused with the JSON body
\* {"error":"MerchantPenalized","penalty_end_at":T,...}, no accept request is
\* issued at any time before T.
C7_NoAcceptBeforePenaltyEnd ==
    [][(\E i \in DOMAIN penaltySeen : penaltySeen[i].json /\ now < penaltySeen[i].sent)
          => takes' = takes]_vars

RECURSIVE NewHighs(_, _)
\* the elements of s that are greater than hi and than every element before them
NewHighs(s, hi) ==
    IF s = <<>> THEN <<>>
    ELSE IF Head(s).sent > hi THEN <<Head(s).sent>> \o NewHighs(Tail(s), Head(s).sent)
    ELSE NewHighs(Tail(s), hi)

\* C8: once the handler has returned, the penalty notifications sent are exactly
\* one for each penalty_end_at the upstream sent that is strictly later than every
\* one before it (T1, T1, T2 gives two: T1 and T2).
C8_NotifyEachNewPenaltyEnd ==
    (CanSend /\ hpc = "idle") => [i \in DOMAIN notes |-> notes[i].until] = NewHighs(penaltySeen, 0)

\* C9: a penalty notification is sent only when the penalty.until just observed
\* strictly exceeds last_notified, which is then advanced to it; last_notified
\* never decreases, and the notifications sent carry strictly increasing
\* penalty_end_at values (at most one per distinct value).
C9_OneNotificationPerPenaltyEnd ==
    [][/\ lastPenaltyNotified' >= lastPenaltyNotified
       /\ notes' # notes =>
            /\ notes' = Append(notes, PenaltyNote(penaltyUntil', penaltyReason'))
            /\ penaltyUntil' > lastPenaltyNotified
            /\ lastPenaltyNotified' = penaltyUntil'
       /\ \A i, j \in DOMAIN notes' : i < j => notes'[i].until < notes'[j].until]_vars

\* the same penalty_end_at was observed twice and notified once
C9_Witness ==
    /\ Len(penaltySeen) = 2 /\ penaltySeen[1].sent = penaltySeen[2].sent
    /\ Len(notes) = 1 /\ notes[1].until = penaltySeen[1].sent
    /\ lastPenaltyNotified = penaltySeen[1].sent
    /\ hpc = "idle"

\* the configured bounds are both set and ordered, and the latest Add carried a number
BoundsApply ==
    /\ workerCfg.MinAmount.set /\ workerCfg.MaxAmount.set
    /\ workerCfg.MinAmount.v <= workerCfg.MaxAmount.v
    /\ lastEv.outcome # "none"
    /\ ParseFloat(lastEv.amount).ok
LastAmount == ParseFloat(lastEv.amount).v
DroppedByBounds == lastEv.outcome \in {"below_min", "above_max"}

\* C10, as stated: with min <= max both set and a numeric in_amount, an amount in
\* [min, max] is not dropped by the bounds filter, and for an amount below min or
\* above max no accept request is issued, whatever max is (0 and negative included).
C10_FilterForEveryMax ==
    BoundsApply =>
       /\ (workerCfg.MinAmount.v <= LastAmount /\ LastAmount <= workerCfg.MaxAmount.v)
             => ~DroppedByBounds
       /\ (LastAmount < workerCfg.MinAmount.v \/ LastAmount > workerCfg.MaxAmount.v)
             => lastEv.outcome # "take"

\* C10, amended: the upper bound filters only when max > 0. An amount in
\* [min, max] is never dropped by the bounds filter; no accept request is issued
\* for an amount below min, nor for one above a positive max; with max <= 0 an
\* amount that is not below min is never dropped by the bounds filter.
C10_FilterForPositiveMax ==
    BoundsApply =>
       /\ (workerCfg.MinAmount.v <= LastAmount /\ LastAmount <= workerCfg.MaxAmount.v)
             => ~DroppedByBounds
       /\ (LastAmount < workerCfg.MinAmount.v
             \/ (workerCfg.MaxAmount.v > 0 /\ LastAmount > workerCfg.MaxAmount.v))
             => lastEv.outcome # "take"
       /\ (workerCfg.MaxAmount.v <= 0 /\ LastAmount >= workerCfg.MinAmount.v)
             => ~DroppedByBounds

\* an Add above a positive max was dropped by the filter
C10_Witness ==
    /\ BoundsApply
    /\ workerCfg.MaxAmount.v > 0 /\ LastAmount > workerCfg.MaxAmount.v
    /\ lastEv.outcome = "above_max"
    /\ takes = <<>>

-----------------------------------------------------------------------------
(* Claims about the subscription driver *)

\* the entry a step applies, when the step applies one
AppliesEntry == Len(applied') = Len(applied) + 1
EntryApplied == applied'[Len(applied')]
Without(s, x) == LET Keep(y) == y # x IN SelectSeq(s, Keep)
Clamp(p, lo, hi) == IF p < lo THEN lo ELSE IF p > hi THEN hi ELSE p

\* C11: applying op=add with id x and position p (absent: 0) to the driver's list
\* yields the list without any prior occurrence of x, with x inserted at index
\* clamp(p, 0, len), len being the length after the removal; p > len puts x at
\* the end.
C11_AddAtClampedPos ==
    [][(AppliesEntry /\ EntryApplied.op = "add" /\ EntryApplied.data.set) =>
          LET x == EntryApplied.data.ID
              base == Without(listIDs, x)
              p == IF EntryApplied.pos.set THEN EntryApplied.pos.v ELSE 0
              i == Clamp(p, 0, Len(base))
          IN listIDs' = SubSeq(base, 1, i) \o <<x>> \o SubSeq(base, i + 1, Len(base))]_vars

\* C12: op=remove with 0 <= pos < n on a list of length n removes exactly the
\* element at index pos, keeps the order of the others, and deletes that element's
\* id (and nothing else) from first_seen.
C12_RemoveAtPos ==
    [][(/\ AppliesEntry /\ EntryApplied.op = "remove" /\ EntryApplied.pos.set
        /\ 0 <= EntryApplied.pos.v /\ EntryApplied.pos.v < Len(listIDs)) =>
          LET k == EntryApplied.pos.v + 1 IN
             /\ Len(listIDs') = Len(listIDs) - 1
             /\ \A i \in 1..(k - 1) : listIDs'[i] = listIDs[i]
             /\ \A i \in k..Len(listIDs') : listIDs'[i] = listIDs[i + 1]
             /\ DOMAIN addTimes' = DOMAIN addTimes \ {listIDs[k]}
             /\ \A x \in DOMAIN addTimes' : addTimes'[x] = addTimes[x]]_vars

\* snapshot [X,Y,Z], then remove pos=1: the list is [X,Z] and first_seen has no Y
C12_Witness ==
    /\ applied = <<Upd("remove", NoData, Pos(1))>>
    /\ pending = 0
    /\ listIDs = <<"X", "Z">>
    /\ DOMAIN addTimes = {"X", "Z"}

RECURSIVE AddIds(_)
\* the ids of the entries of us with op=add and data, in order
AddIds(us) ==
    IF us = <<>> THEN <<>>
    ELSE IF Head(us).op = "add" /\ Head(us).data.set
      THEN <<Head(us).data.ID>> \o AddIds(Tail(us))
    ELSE AddIds(Tail(us))

\* C20: the handler is invoked exactly once for each entry with op=add and data,
\* in the order of the entries; an invocation starts only when none is running,
\* and while one is running no further entry is applied and no frame is read.
C20_HandlerOncePerAddInOrder ==
    [][/\ invoked' = AddIds(applied')
       /\ (invoked' # invoked /\ invoked' # <<>>) =>
             (hBusy = "" /\ hBusy' = invoked'[Len(invoked')])
       /\ hBusy # "" => applied' = applied]_vars

\* one frame carried two adds of the same id; the handler ran for both, one after
\* the other
C20_Witness ==
    /\ Len(applied) = 2 /\ pending = 0 /\ hBusy = ""
    /\ invoked = <<"X", "X">>

-----------------------------------------------------------------------------
(* Claims about the rate limiter *)

\* the number of allowed calls in the 5-minute window that starts at time a
AllowedIn(a) ==
    Cardinality({j \in DOMAIN allowedLog : a <= allowedLog[j] /\ allowedLog[j] <= a + RlWindow})

\* C13: for call times that never decrease, every 5-minute window holds at most
\* 180 allowed calls, and a refused call appends no timestamp to the window: the
\* window holds at most 180 timestamps, and they are the times of the latest
\* allowed calls.
C13_AtMostLimitPerWindow ==
    /\ \A a \in {allowedLog[i] : i \in DOMAIN allowedLog} : AllowedIn(a) <= RlLimit
    /\ Len(reqHistory) <= RlLimit
    /\ Len(reqHistory) <= Len(allowedLog)
    /\ reqHistory = SubSeq(allowedLog, Len(allowedLog) - Len(reqHistory) + 1, Len(allowedLog))

\* 180 calls were allowed at one instant and the call exactly 5 minutes later was
\* refused
C13_Witness ==
    /\ rlLast = "refused"
    /\ rlNow = StartTime + RlWindow
    /\ Len(allowedLog) = RlLimit
    /\ AllowedIn(StartTime) = RlLimit

-----------------------------------------------------------------------------
(* Claims about Worker.Start *)

\* C14: however many times Start() is called on a Worker, there is at most one
\* supervisor task, doneCh is closed at most once and nothing panics; and with
\* ~active or ~auto_mode no subscription is dialled.
C14_StartIdempotent ==
    /\ ~stPanic
    /\ stDoneCloses <= 1
    /\ Cardinality({g \in Tasks : stTask[g] \notin {"none", "exited"}}) <= 1
    /\ ~Enabled(stCfg) => ~stDialed

-----------------------------------------------------------------------------
(* Claims about the workers map *)

\* C15: whenever no Manager operation holds the mutex (every operation that
\* changes the map has returned, StopAll included), every Worker in the workers
\* map is live: Stop() has not been called on it.
C15_MapHoldsOnlyLiveWorkers ==
    mu = 0 => \A a \in Accounts : workers[a] # NoWorker => ~stopClosed[workers[a]]

-----------------------------------------------------------------------------
(* Claims about CompletePayment / CancelPayment *)

\* a step that is one CompletePayment / CancelPayment call
SettleStep == lastSettle'.seq # lastSettle.seq
SettleOk == SettleStep /\ lastSettle'.res = "ok"

\* C16: with the active lock bound to stream id s and takeMap[s] = n (s was accepted
\* with numeric id n), a successful CompletePayment / CancelPayment(x) clears the
\* active lock when x is s and also when x is the numeric id n.
C16_SettleClearsLockForBothIds ==
    [][(/\ SettleOk
        /\ activePaymentID # ""
        /\ activePaymentID \in DOMAIN takeMap
        /\ lastSettle'.id \in {activePaymentID, SprintfD(takeMap[activePaymentID])})
         => (activePaymentID' = "" /\ activeLockUntil' = 0)]_vars

\* C17: without a merchant account id CompletePayment / CancelPayment returns
\* "no p2c account id configured" and issues no upstream request; and a call that
\* returns an error leaves the active lock and takeMap as they were.
C17_SettleErrorChangesNothing ==
    [][SettleStep =>
         /\ workerCfg.P2CAccountID = ""
              => (lastSettle'.res = "no p2c account id configured" /\ ~lastSettle'.asked)
         /\ lastSettle'.res # "ok"
              => UNCHANGED <<activePaymentID, activeLockUntil, takeMap>>]_vars

\* a Worker without a merchant account id accepted a payment (lock and takeMap
\* entry exist) and a call for that payment returned the configuration error
C17_Witness ==
    /\ lastSettle.res = "no p2c account id configured"
    /\ ~lastSettle.asked
    /\ activePaymentID # ""
    /\ lastSettle.id = activePaymentID
    /\ activePaymentID \in DOMAIN takeMap

\* C18: after a successful CompletePayment / CancelPayment(s) for a stream id s
\* that has a takeMap entry, s is no longer a key of takeMap.
C18_SettleRemovesMapEntry ==
    [][(SettleOk /\ lastSettle'.id \in DOMAIN takeMap)
         => lastSettle'.id \notin DOMAIN takeMap']_vars

-----------------------------------------------------------------------------
(* Claims about a successful accept *)

\* a step in which TakeLivePayment returned a response (no error) to the handler
AcceptStep == hpc = "taking" /\ hpc' = "idle" /\ lastTake'.ok

\* what the accept of cur with numeric id n is to leave behind: takeMap[id] = n,
\* the lock on id until expires_at + 10 s (parsed, in the future) or now + 5 min,
\* one notification started, its keyboard carrying the two callback payloads
AcceptEffects(n) ==
    LET t == ParseRFC3339(cur.ExpiresAt) IN
    /\ cur.ID \in DOMAIN takeMap'
    /\ takeMap'[cur.ID] = n
    /\ activePaymentID' = cur.ID
    /\ activeLockUntil' = IF t.ok /\ t.t > now THEN t.t + ExpiryGrace ELSE now + DefaultLock
    /\ lastTake'.started = 1
    /\ lastTake'.markup.paid =
         <<"paid", SprintfD(workerCfg.AccountID), cur.ID, cur.InAmount, cur.ExchangeRate,
           cur.FeeAmount>>
    /\ lastTake'.markup.cancel = <<"cancel", SprintfD(workerCfg.AccountID), cur.ID>>

\* C19 as stated: for every successful accept whose response carries the numeric
\* id n, takeMap[id] = n, the lock is {id, expires_at + 10 s or now + 5 min}, and
\* one notification is started whose keyboard carries paid:<account>:<id>:
\* <in_amount>:<exchange_rate>:<fee_amount> and cancel:<account>:<id>.
C19_AcceptEffectsAlways ==
    [][AcceptStep => AcceptEffects(lastTake'.dataId)]_vars

\* C19, amended: the same for a numeric id n # 0 and an account id # 0.
C19_AcceptEffectsNonZero ==
    [][(AcceptStep /\ lastTake'.dataId # 0 /\ workerCfg.AccountID # 0 /\ cur.ID # "")
         => AcceptEffects(lastTake'.dataId)]_vars

\* an Add with an expires_at in the future was accepted with numeric id 777: the
\* lock runs to expires_at + 10 s and the keyboard was built
C19_Witness ==
    /\ lastTake.ok /\ lastTake.dataId = 777 /\ lastTake.started = 1
    /\ workerCfg.AccountID # 0
    /\ activePaymentID \in DOMAIN takeMap
    /\ takeMap[activePaymentID] = 777
    /\ activeLockUntil = StartTime + 60 + ExpiryGrace
    /\ lastTake.markup.paid # <<>>
    /\ lastTake.markup.paid[3] = activePaymentID

-----------------------------------------------------------------------------
(* Claims about the supervisor loop *)

InLoop(g) == stTask[g] \in {"dial", "loop", "backoff", "wait"}
Cancelled(g) == g \in stCtxDone

\* the loop is left only with the context cancelled
SupExitsOnlyCancelled ==
    [][\A g \in Tasks : (InLoop(g) /\ stTask'[g] = "exited") => Cancelled(g)]_vars
\* after a return of the driver with the context not cancelled, the driver is
\* called again (unless the context is cancelled in the meantime, or another
\* goroutine has brought the process down)
SupRedialsWhileLive ==
    \A g \in Tasks :
       (stTask[g] = "backoff" /\ ~Cancelled(g)) ~> (stTask[g] = "dial" \/ Cancelled(g) \/ stPanic)
\* once the context is cancelled the supervisor exits (or the process is down)
SupExitsOnceCancelled ==
    \A g \in Tasks : (Cancelled(g) /\ InLoop(g)) ~> (stTask[g] = "exited" \/ stPanic)
\* with the context cancelled the driver is never called again
SupNeverRedialsCancelled ==
    [][\A g \in Tasks : Cancelled(g) => ~(stTask[g] # "dial" /\ stTask'[g] = "dial")]_vars
\* a select entered with the context cancelled returns: no wait, no redial
SupNoRedialFromCancelledSelect ==
    [][\A g \in Tasks :
         (stTask[g] = "backoff" /\ Cancelled(g)) => stTask'[g] \in {"backoff", "exited"}]_vars

-----------------------------------------------------------------------------
(* Claims about the QR link *)

\* the percent-encoding of a character in which the space is %20
PercentEncoded(c) == IF c \in Unreserved THEN <<c>> ELSE <<"%">> \o HexOf(c)
\* the text between "text=" and "&size=200"
QrText == SubSeq(qrOut, 2, Len(qrOut) - 1)

\* C22: for every payment URL u the QR link is
\* https://quickchart.io/qr?text=<e>&size=200 where e is the percent-encoding of
\* u with every space as %20, and e contains no "+".
C22_QrLinkEncodesSpaceAsPercent20 ==
    qrOut # <<>> =>
       /\ qrOut[1] = "https://quickchart.io/qr?text="
       /\ qrOut[Len(qrOut)] = "&size=200"
       /\ QrText = FlatMap(PercentEncoded, qrIn)
       /\ \A i \in 1..Len(QrText) : QrText[i] # "+"

\* the link was built for a URL that holds a space and a plus sign
C22_Witness ==
    /\ qrOut # <<>>
    /\ \E i \in 1..Len(qrIn) : qrIn[i] = " "
    /\ \E i \in 1..Len(qrIn) : qrIn[i] = "+"

-----------------------------------------------------------------------------
(* Claims about the dedup cache *)

\* C23: dedup entries expire 10 minutes after insertion and are swept on each
\* accept-path entry: an Add dropped as a duplicate finds an entry no older than
\* 10 minutes, and after the accept path has run for an Add the cache holds no
\* entry older than 10 minutes.
C23_DedupEntriesExpire ==
    [][adds' = adds + 1 =>
         /\ lastEv'.outcome = "dup" => \E x \in DOMAIN seen : now - seen[x] <= SeenTTL
         /\ \A x \in DOMAIN seen' : now - seen'[x] <= SeenTTL]_vars

-----------------------------------------------------------------------------
(* Claims about refused accepts *)

\* a step in which TakeLivePayment returned the ActiveOrderExists refusal
ActiveExistsStep ==
    hpc = "taking" /\ hpc' = "idle" /\ lastTake'.refused = "ActiveOrderExists"

\* C24: when the accept request fails with ActiveOrderExists the lock's until
\* becomes max(previous until, now + 2 s), so it never moves earlier, however many
\* such outcomes follow one another; payment_id is unchanged, no notification is
\* sent or started, and id_map and the penalty state are unchanged.
C24_ActiveExistsBumpsLock ==
    [][ActiveExistsStep =>
         /\ activeLockUntil' = IF activeLockUntil >= now + ActiveBackoff
                                  THEN activeLockUntil ELSE now + ActiveBackoff
         /\ activeLockUntil' >= activeLockUntil
         /\ UNCHANGED <<activePaymentID, notes, accepted, notifyTasks, takeMap,
                        penaltyUntil, penaltyReason, lastPenaltyNotified>>]_vars
\* an ActiveOrderExists refusal has just set the lock to now + 2 s
C24_Witness ==
    /\ hpc = "idle"
    /\ lastTake.refused = "ActiveOrderExists"
    /\ activeLockUntil = now + ActiveBackoff
    /\ adds >= 1

\* C25: when the accept request fails with MerchantPenalized carrying
\* penalty_end_at = T and penalty_type = R, the Worker sets penalty.until = T and
\* penalty.reason = R.
C25_PenaltyRecordsEndAndType ==
    [][(/\ hpc = "taking" /\ hpc' = "idle"
        /\ Len(penaltySeen') = Len(penaltySeen) + 1
        /\ penaltySeen'[Len(penaltySeen')].json)
         => /\ penaltyUntil' = penaltySeen'[Len(penaltySeen')].sent
            /\ penaltyReason' = "SLOW"]_vars

-----------------------------------------------------------------------------
(* Claims about the frames of the driver's read loop *)

\* C26: an op=remove whose pos is absent, negative or >= the length of the list
\* leaves the virtual list and first_seen unchanged, and the remaining entries of
\* the frame are still applied in order: the frame loses only this entry, and
\* while entries remain the driver neither returns nor reads another frame.
C26_RemoveOutOfRangeSkipped ==
    [][/\ (/\ AppliesEntry /\ EntryApplied.op = "remove"
           /\ (\/ ~EntryApplied.pos.set
               \/ EntryApplied.pos.v < 0
               \/ EntryApplied.pos.v >= Len(listIDs)))
          => /\ listIDs' = listIDs
             /\ addTimes' = addTimes
             /\ pending' = pending - 1
             /\ hBusy' = ""
             /\ invoked' = invoked
       /\ pending > 0 =>
             /\ UNCHANGED <<lastRead, loopRet>>
             /\ applied' # applied => (AppliesEntry /\ pending' = pending - 1)]_vars
\* snapshot [X,Y,Z], then a frame of two entries: the remove with pos=9 was
\* skipped and the add after it was applied
C26_Witness ==
    /\ applied = <<Upd("remove", NoData, Pos(9)), Upd("add", Data("Y"), Pos(0))>>
    /\ pending = 0
    /\ listIDs = <<"Y", "X", "Z">>
    /\ DOMAIN addTimes = {"X", "Y", "Z"}

\* the ids of a list
IdsOf(s) == {s[i] : i \in DOMAIN s}
\* C27: after any sequence of namespace acks, snapshots and add/remove updates on
\* one connection the virtual list holds no id twice and the set of its ids is the
\* key set of first_seen.
C27_ListAndFirstSeenConsistent ==
    /\ \A i, j \in DOMAIN listIDs : listIDs[i] = listIDs[j] => i = j
    /\ IdsOf(listIDs) = DOMAIN addTimes

\* a step of the read loop that reads a frame of kind k
ReadsFrame(k) == pending = 0 /\ hBusy = "" /\ lastRead'.kind = k

\* C28: a list:snapshot frame replaces the virtual list with exactly the
\* snapshot's ids in the given order, whatever the list held before, and sets
\* first_seen to exactly those ids; a 40 frame resets the list and first_seen to
\* empty and causes exactly one 42["list:initialize"] frame to be sent.
C28_SnapshotReplacesAckResets ==
    [][/\ ReadsFrame("list:snapshot") =>
             /\ listIDs' = lastRead'.ids
             /\ DOMAIN addTimes' = IdsOf(lastRead'.ids)
             /\ \A x \in DOMAIN addTimes' : addTimes'[x] = now
       /\ ReadsFrame("40") =>
             /\ listIDs' = <<>>
             /\ addTimes' = EmptyMap
             /\ written' = <<ListInitFrame>>]_vars
\* the frame read last was a 40: the list state is empty and the one frame
\* written for it is 42["list:initialize"]
C28_Witness ==
    /\ lastRead.kind = "40"
    /\ written = <<"42[\"list:initialize\"]">>
    /\ listIDs = <<>> /\ addTimes = EmptyMap
    /\ ~loopRet

\* C30: every server ping "2" is answered with exactly one "3" written before
\* the next frame is read; the driver never writes a ping of its own; a ping
\* changes neither the virtual list nor first_seen and invokes no handler.
C30_PingAnsweredOnce ==
    [][/\ ReadsFrame("2") =>
             /\ written' = <<"3">>
             /\ UNCHANGED <<listIDs, addTimes>>
             /\ invoked' = <<>> /\ hBusy' = "" /\ pending' = 0
       /\ \A i \in DOMAIN written' : written'[i] # "2"
       /\ written' # written => (pending = 0 /\ hBusy = "")]_vars
\* a ping was read while the list held the snapshot [X,Y,Z]: "3" was written and
\* the list is as it was
C30_Witness ==
    /\ lastRead.kind = "2"
    /\ written = <<"3">>
    /\ listIDs = <<"X", "Y", "Z">>
    /\ DOMAIN addTimes = {"X", "Y", "Z"}

-----------------------------------------------------------------------------
(* Claims about the WebSocket upgrade *)

\* s is an initial part of t
IsPrefix(s, t) == Len(s) <= Len(t) /\ SubSeq(t, 1, Len(s)) = s

\* C29: the upgrade sends 2probe, 5 and 40 in that order, 5 and 40 only after
\* 3probe was received; when the first frame received is anything else the
\* connection is closed and an error returned, without 5 or 40 sent and without
\* the read loop entered.
C29_UpgradeOnlyAfterProbeAnswer ==
    /\ IsPrefix(upSent, <<"2probe", "5", "40">>)
    /\ Len(upSent) >= 2 => upReply = "3probe"
    /\ upPc = "loop" => (upSent = <<"2probe", "5", "40">> /\ upReply = "3probe" /\ upConn = "open")
    /\ upReply \notin {UpNoReply, "3probe"} =>
          /\ upConn = "closed"
          /\ upPc = "returned"
          /\ upErr # ""
          /\ upSent = <<"2probe">>
\* the server answered the probe with "3": the connection is closed and
\* SubscribeSocket has returned an error, with only 2probe sent
C29_Witness ==
    /\ upReply = "3"
    /\ upPc = "returned" /\ upErr = "dial ws"
    /\ upConn = "closed"
    /\ upSent = <<"2probe">>

-----------------------------------------------------------------------------
(* Claims about the Manager's mutex *)

\* C31: the Manager's mutex is never held while its holder waits for a Worker's
\* supervisor task to exit (Worker.Stop() blocked in <-w.doneCh).
C31_NoStopUnderMutex == \A c \in Callers : InStop(c) => mu # c

-----------------------------------------------------------------------------
(* Claims about the accept notification *)

\* C32: the accept notification runs in a detached task.  The step that ends a
\* successful accept returns the handler with the notification task started and
\* the lock and id_map of the payment already set; the notification task
\* touches nothing the handler works on; and while a notification is in flight
\* the handler is free to take the next stream event.
C32_NotificationDetached ==
    /\ [][/\ AcceptStep =>
               /\ hpc' = "idle"
               /\ cur.ID \in notifyTasks'
               /\ activePaymentID' = cur.ID
               /\ activeLockUntil' > now
               /\ (cur.ID # "" /\ lastTake'.dataId # 0) =>
                     (cur.ID \in DOMAIN takeMap' /\ takeMap'[cur.ID] = lastTake'.dataId)
          /\ accepted' # accepted =>
               /\ \E id \in notifyTasks : notifyTasks' = notifyTasks \ {id}
               /\ UNCHANGED <<hpc, cur, adds, wkState>>]_vars
    /\ [](hpc = "idle" /\ adds < MaxAdds => ENABLED (\E p \in AllPayments : HandleAdd(p)))
\* the accept request for B is in flight while the notification for the accepted
\* A has not completed
C32_Witness ==
    /\ hpc = "taking" /\ cur.ID = "B"
    /\ notifyTasks = {"A"}
    /\ "A" \in DOMAIN takeMap
    /\ accepted = <<>>

\* C33: for each successful accept send_photo is attempted exactly once, and
\* send_text with the same caption is attempted if and only if that send_photo
\* failed; neither is retried.  A notification task is started by a successful
\* accept only, for a payment that has none yet; the task ends with one call of
\* sendTelegramPhoto, followed by one call of sendTelegram exactly when the photo
\* call returned an error.
C33_PhotoOnceTextIffFailed ==
    [][/\ notifyTasks' \ notifyTasks # {} =>
             /\ AcceptStep
             /\ notifyTasks' = notifyTasks \cup {cur.ID}
             /\ cur.ID \notin notifyTasks
             /\ \A i \in DOMAIN accepted : accepted[i].id # cur.ID
       /\ (accepted' # accepted \/ notifyTasks \ notifyTasks' # {}) =>
             \E id \in notifyTasks :
                /\ notifyTasks' = notifyTasks \ {id}
                /\ \/ accepted' = Append(accepted, TgCall("sendTelegramPhoto", id, FALSE))
                   \/ accepted' = accepted \o <<TgCall("sendTelegramPhoto", id, TRUE),
                                                 TgCall("sendTelegram", id, FALSE)>>]_vars
\* the photo for the accepted A failed and the caption was sent as text
C33_Witness ==
    /\ accepted = <<TgCall("sendTelegramPhoto", "A", TRUE), TgCall("sendTelegram", "A", FALSE)>>
    /\ notifyTasks = {}
    /\ CanSend

-----------------------------------------------------------------------------
(* Claims about the amount filter *)

\* a step in which handleLivePayment drops a new Add by the amount filter
FilterDropStep == adds' = adds + 1 /\ lastEv'.outcome \in {"below_min", "above_max"}
\* what every such step does: no accept request, no notification, penalty state
\* and id_map unchanged, the stream id recorded in the dedup cache
FilterDropEffects ==
    /\ takes' = takes /\ hpc' = "idle" /\ cur' = cur
    /\ UNCHANGED <<notes, accepted, notifyTasks>>
    /\ UNCHANGED <<penaltyUntil, penaltyReason, lastPenaltyNotified, takeMap>>
    /\ \E id \in StreamIds :
          /\ id \notin DOMAIN seen
          /\ DOMAIN seen' = DOMAIN seen \cup {id}
          /\ seen'[id] = now

\* C34 as stated: an Add dropped by the amount filter issues no accept request and
\* sends no notification, leaves the active lock, penalty state and id_map
\* unchanged, and its stream id is in the dedup cache afterwards.
C34_FilterDropChangesNothing ==
    [][FilterDropStep =>
         /\ FilterDropEffects
         /\ UNCHANGED <<activePaymentID, activeLockUntil>>]_vars
\* C34, amended: the same, but the active lock is unchanged only while it has not
\* expired; a lock whose until has passed is reset to empty by the lock check
\* that precedes the filter.
C34_FilterDropKeepsLiveLock ==
    [][FilterDropStep =>
         /\ FilterDropEffects
         /\ IF activeLockUntil # 0 \/ activePaymentID # ""
              THEN activePaymentID' = "" /\ activeLockUntil' = 0
              ELSE UNCHANGED <<activePaymentID, activeLockUntil>>]_vars
\* an Add below the minimum was dropped after the lock of the accepted A had
\* expired: the lock fields are empty and B is in the dedup cache
C34_Witness ==
    /\ lastEv.outcome = "below_min"
    /\ hpc = "idle"
    /\ DOMAIN seen = {"A", "B"}
    /\ seen["B"] = now
    /\ Len(takes) = 1 /\ takes[1].id = "A"
    /\ "A" \in DOMAIN takeMap
    /\ activePaymentID = "" /\ activeLockUntil = 0

-----------------------------------------------------------------------------
(* Claims about the Worker a reload replaces *)

\* C35: from the successful accept of stream id s with numeric id n until s is
\* completed or canceled, a complete_payment / cancel_payment for s sends n (not
\* s) to the upstream, also when a reload_account of the account (active and
\* auto_mode) happened in between.  Checked for the first such call after the
\* accept, when it issues an upstream request.
C35_SettleSendsNumericId ==
    [][(/\ SettleStep
        /\ lastSettle = NoSettle
        /\ lastTake.ok /\ lastTake.dataId # 0
        /\ takes # <<>>
        /\ lastSettle'.id = takes[Len(takes)].id
        /\ lastSettle'.asked)
         => lastSettle'.sent = SprintfD(lastTake.dataId)]_vars

-----------------------------------------------------------------------------
(* Claims about Worker.Stop under the Manager *)

\* C36: no Worker has Stop() invoked on it more than once across any sequence of
\* Manager operations, so no Manager call ends in the close of an already closed
\* stop channel.
C36_StopInvokedOnce == lastRet.res # "panic_close"

\* C37: a complete_payment / cancel_payment routed by the Manager is never
\* executed against a Worker that was replaced or evicted: the Worker the call
\* runs on is the one in the workers map when the call is made.
C37_RoutedCallUsesMappedWorker ==
    [][\A c \in Callers :
         (/\ pc[c] = "rt_call" /\ pc'[c] = "idle"
          /\ frame[c].op \in {"complete", "cancel"}
          /\ frame[c].w # NoWorker)
           => workers[frame[c].cfg.AccountID] = frame[c].w]_vars

\* Stop() was invoked on Worker w and has returned
StopReturned(w) ==
    /\ stopClosed[w]
    /\ \A c \in Callers : ~(InStop(c) /\ frame[c].w = w)

\* C38: once Worker.Stop() has returned, the Worker's supervisor goroutine has
\* exited and takes no further step: the driver reads no frame for it, so the
\* handler is never invoked again and no accept request is issued.
C38_NoHandlerAfterStop ==
    /\ [](\A w \in WorkerIds : StopReturned(w) => sup[w] = "exited")
    /\ [][\A w \in WorkerIds : StopReturned(w) => sup'[w] = sup[w]]_vars
\* a Worker whose supervisor had set up its context was stopped, Stop() returned,
\* and the supervisor has exited
C38_Witness ==
    \E w \in WorkerIds :
       /\ StopReturned(w)
       /\ wCancel[w] /\ ctxDone[w]
       /\ sup[w] = "exited"

\* ---------------------------------------------------------------------------
\* The Worker across connections: Start's loop calls SubscribeSocket again five
\* seconds after it returned, with the same handler value w.handleLivePayment
\* (part_004:76-86). SubscribeSocket makes addTimes and listIDs anew on every call
\* (socket.go:54-56); the Worker's fields are written by neither.
ReconnectDelay == 5
MaxReconnects == 2
\* what a new SubscribeSocket call leaves of the Worker's seen map
SeenPerConnection == EmptyMap
SeenAfterReconnect == seen
Reconnect ==
    /\ hpc = "idle"
    /\ pending = 0 /\ hBusy = ""
    /\ now < StartTime + MaxReconnects * ReconnectDelay
    /\ now' = now + ReconnectDelay
    /\ seen' = SeenAfterReconnect
    /\ listIDs' = <<>>
    /\ addTimes' = EmptyMap
    /\ applied' = <<>>
    /\ invoked' = <<>>
    /\ lastRead' = Frame("none", <<>>)
    /\ written' = <<>>
    /\ loopRet' = FALSE
    /\ UNCHANGED <<pending, hBusy>>
    /\ UNCHANGED <<workerCfg, ticks, adds, penaltyUntil, penaltyReason, lastPenaltyNotified,
                   activePaymentID, activeLockUntil, takeMap, hpc, cur, notifyTasks, wkHist>>
    /\ UNCHANGED <<mgrVars, rlVars, stVars, qrVars, upVars>>

ReconnectNext ==
    \/ \E p \in AllPayments : HandleAdd(p)
    \/ \E ans \in TakeAnswers : HandleTakeReturn(ans)
    \/ \E id \in StreamIds : NotifyLiveAccepted(id)
    \/ \E ids \in DrvSnapshots : DrvReadSnapshot(ids)
    \/ Reconnect
ReconnectSpec == WorkerInit /\ [][ReconnectNext]_vars

\* C39: the dedup cache is the Worker's, not a connection's: a new SubscribeSocket
\* call leaves seen as it was, so that no id is accept-requested twice however many
\* connections carried it, and an Add for an id in seen is dropped without a
\* request; a list:snapshot frame fills the driver's list and calls no handler:
\* no Add is counted, seen and the accept requests are unchanged.
SnapshotStep == lastRead'.kind = "list:snapshot" /\ drvVars' # drvVars
C39_DedupOutlivesConnection ==
    /\ [](\A i, j \in DOMAIN takes : takes[i].id = takes[j].id => i = j)
    /\ [][/\ now' = now + ReconnectDelay => seen' = seen
          /\ SnapshotStep => /\ UNCHANGED <<adds, seen, takes, hpc, cur, lastEv>>
                             /\ invoked' = <<>> /\ hBusy' = ""]_vars

\* an id recorded on one connection came again as an Add after a reconnect and was
\* dropped as a duplicate, and a snapshot was loaded on the new connection
C39_Witness ==
    /\ DOMAIN seen = {"A"} /\ seen["A"] = StartTime
    /\ lastEv.outcome = "dup" /\ lastEv.at >= StartTime + ReconnectDelay
    /\ Len(takes) = 1 /\ takes[1].id = "A"
    /\ Len(listIDs) = 3

\* ---------------------------------------------------------------------------
\* The two fields of the active lock
LockRecorded == ~(activeLockUntil = 0 /\ activePaymentID = "")
LockEmptied == activePaymentID' = "" /\ activeLockUntil' = 0
\* a step of neither handleLivePayment nor the return of its accept: CompletePayment,
\* CancelPayment, the notification task or the passing of time
SettleClearsBoth ==
    adds' = adds /\ hpc' = hpc => UNCHANGED <<activePaymentID, activeLockUntil>> \/ LockEmptied

\* C40 as stated: a recorded payment id has a non-zero until; every Add that
\* arrives when now is not before the until of a recorded lock leaves both fields
\* empty; CompletePayment / CancelPayment leave the fields as they were or empty
\* both.
C40_LockFieldsConsistent ==
    /\ [](activePaymentID # "" => activeLockUntil # 0)
    /\ [][/\ adds' = adds + 1 /\ LockRecorded /\ now >= activeLockUntil => LockEmptied
          /\ SettleClearsBoth]_vars

\* C40: a recorded payment id has a non-zero until; an Add whose id is not in seen
\* and that arrives when now is not before the until of a recorded lock leaves both
\* fields empty, in the step that goes on to the penalty check, the filter and the
\* accept; CompletePayment / CancelPayment leave the fields as they were or empty
\* both. An Add whose id is in seen returns before the lock is looked at.
C40_LockFieldsConsistentPastDedup ==
    /\ [](activePaymentID # "" => activeLockUntil # 0)
    /\ [][/\ adds' = adds + 1 /\ lastEv'.outcome # "dup" /\ LockRecorded
               /\ now >= activeLockUntil => LockEmptied
          /\ adds' = adds + 1 /\ lastEv'.outcome = "dup"
               => UNCHANGED <<activePaymentID, activeLockUntil>>
          /\ SettleClearsBoth]_vars

\* an accept set the lock; with no p2c account id CompletePayment / CancelPayment
\* return before clearActiveLock; a later Add that was not a duplicate left the
\* fields empty and went on to its accept request
C40_Witness ==
    /\ workerCfg.P2CAccountID = ""
    /\ lastTake.ok /\ hpc = "taking"
    /\ adds = 2 /\ lastEv.outcome = "take" /\ lastEv.at > takes[1].at
    /\ activePaymentID = "" /\ activeLockUntil = 0

=============================================================================
